---- MODULE Spec2Model ----
(***************************************************************************)
(* The partition state machine of worker/src/partition/state_machine.rs:   *)
(* StateMachine::on_apply turns one Command, read against a StateReader,   *)
(* into effects appended to a borrowed Effects buffer, and keeps the inbox *)
(* and outbox sequence counters.  The partition loop around it (command    *)
(* in, effects out to an applier that persists them) is modelled as far as *)
(* the state reader's answers depend on it.                                *)
(*                                                                         *)
(* The RocksDbManager of crates/rocksdb/src/db_manager.rs follows it: init,*)
(* open_db, the spawn functions and their two pools, shutdown, reset and   *)
(* the DbWatchdog task, each under a specification of its own.             *)
(***************************************************************************)
EXTENDS Integers, Sequences, FiniteSets, TLC

(* ------------------------------ bounds --------------------------------- *)
\* The counters are u64 in the source; commands that would take one past
\* MaxSeq are not offered.
MaxSeq == 2
\* Largest journal length the applier lets a journal reach.
MaxJournalLen == 2
\* Largest journal revision the applier lets a journal reach.
MaxRevision == 2

(* ------------------------------ values --------------------------------- *)
\* One service: every read and every effect of a command is keyed by the
\* command's own ServiceId.
ServiceIds == {"S1"}
InvocationIds == {"I1", "I2"}
NoId == "none"

ServiceInvocationIds ==
    [service_id : ServiceIds, invocation_id : InvocationIds]

\* A ServiceInvocation: its id is all the state machine reads of it.
ServiceInvocations == [id : ServiceInvocationIds]

EntryIndices == 0..MaxJournalLen
JournalRevisions == 0..MaxRevision
Timestamps == {7}
OutboxIndices == {0}

\* InvocationStatus: Free | Invoked(InvocationId) | Suspended(InvocationId)
Free == [tag |-> "Free", id |-> NoId]
Invoked(i) == [tag |-> "Invoked", id |-> i]
Suspended(i) == [tag |-> "Suspended", id |-> i]
InvocationStatuses ==
    {Free} \cup {Invoked(i) : i \in InvocationIds}
           \cup {Suspended(i) : i \in InvocationIds}

\* EntryType, the tag in a raw entry's header.
DecodedEntryTypes ==
    {"Invoke", "BackgroundInvoke", "CompleteAwakeable",
     "SetState", "ClearState", "Sleep"}
PlainEntryTypes ==
    {"GetState", "Custom", "PollInputStream", "OutputStream", "Awakeable"}
EntryTypes == DecodedEntryTypes \cup PlainEntryTypes

\* What Codec::deserialize makes of a raw entry's bytes: the entry of the
\* header's type ("ok"), an entry of another type ("other"), or Err ("err").
DecodeOutcomes == {"ok", "other", "err"}

\* A RawEntry: its header type and what its bytes decode to.  The types the
\* state machine never decodes carry "ok".
RawEntries ==
    [ty : DecodedEntryTypes, decode : DecodeOutcomes]
    \cup [ty : PlainEntryTypes, decode : {"ok"}]

\* ResponseResult of a Response command, and the CompletionResult it is
\* converted into (result.into()).
ResponseResults == {[response |-> "Success"], [response |-> "Failure"]}
ResultInto(result) == [completion |-> result.response]
SuccessEmpty == [completion |-> "Success"]
Failure502 == [completion |-> "Failure"]

\* Which read of the StateReader returns Err during a command.
ReadFailures ==
    {"none", "get_invocation_status", "get_journal_status", "peek_inbox"}

\* The reads a command can reach, which are the ones whose failure shows.
ReadsOf(command) ==
    CASE command.type = "OutboxTruncation" -> {"none"}
      [] command.type = "Invoker" ->
            IF command.kind.kind \in {"JournalEntry", "Suspended"}
            THEN {"none", "get_invocation_status", "get_journal_status"}
            ELSE {"none", "get_invocation_status", "peek_inbox"}
      [] OTHER -> {"none", "get_invocation_status"}

VARIABLES
    inbox_seq_number,   \* StateMachine.inbox_seq_number
    outbox_seq_number,  \* StateMachine.outbox_seq_number
    effects,            \* the borrowed Effects buffer
    result,             \* what the last on_apply returned
    pc,                 \* the partition loop: "idle" | "applied" | "panicked"
    cmd,                \* the command of the last on_apply
    pre,                \* what held when the last on_apply started
    status,             \* storage: InvocationStatus per ServiceId
    inbox,              \* storage: inbox entries per ServiceId
    journal,            \* storage: journal length and revision per ServiceId
    debug_assertions    \* the build: debug_assert! compiled in or out

\* crates/rocksdb/src/db_manager.rs
VARIABLES
    DB_MANAGER,         \* static DB_MANAGER: OnceLock<RocksDbManager>
    inits,              \* the calls of RocksDbManager::init
    concurrent_init,    \* an init call began while another was running
    watchdog_tasks,     \* "db-manager" tasks spawned on the task center
    config,             \* the live CommonOptions behind every Updateable
    config_changed,     \* Configuration::watcher() has a change not yet seen
    config_changes,     \* how many times the configuration was changed
    cancelled,          \* cancellation_watcher() is ready
    watchdog_rx,        \* the commands sent on watchdog_tx, not yet received
    watchdog,           \* the DbWatchdog task: position and fields
    opens,              \* the calls of open_db
    calls,              \* the calls of async_spawn, spawn and *_unchecked
    shutdowns,          \* the runs of RocksDbManager::shutdown
    resets,             \* the call of RocksDbManager::reset
    db_state            \* every RocksDb created: open, closed or failed

smvars ==
    <<inbox_seq_number, outbox_seq_number, effects, result, pc, cmd, pre,
      status, inbox, journal, debug_assertions>>

dbvars ==
    <<DB_MANAGER, inits, concurrent_init, watchdog_tasks, config,
      config_changed, config_changes, cancelled, watchdog_rx, watchdog,
      opens, calls, shutdowns, resets, db_state>>

vars == <<smvars, dbvars>>

(* --------------------------- Effects buffer ----------------------------- *)
\* Each method of Effects appends one tagged effect to the buffer.
invoke_service(eff, si) ==
    Append(eff, [type |-> "invoke_service", si |-> si])
enqueue_into_inbox(eff, seq, si) ==
    Append(eff, [type |-> "enqueue_into_inbox", seq |-> seq, si |-> si])
pop_inbox(eff, sid, seq) ==
    Append(eff, [type |-> "pop_inbox", service_id |-> sid, seq |-> seq])
enqueue_into_outbox(eff, seq, message) ==
    Append(eff, [type |-> "enqueue_into_outbox", seq |-> seq,
                 message |-> message])
truncate_outbox(eff, index) ==
    Append(eff, [type |-> "truncate_outbox", index |-> index])
set_state(eff, sid) ==
    Append(eff, [type |-> "set_state", service_id |-> sid])
clear_state(eff, sid) ==
    Append(eff, [type |-> "clear_state", service_id |-> sid])
register_timer(eff, siid, entry_index) ==
    Append(eff, [type |-> "register_timer", id |-> siid,
                 entry_index |-> entry_index])
delete_timer(eff, wake_up_time, sid, entry_index) ==
    Append(eff, [type |-> "delete_timer", wake_up_time |-> wake_up_time,
                 service_id |-> sid, entry_index |-> entry_index])
append_journal_entry(eff, siid, entry_index, entry) ==
    Append(eff, [type |-> "append_journal_entry", id |-> siid,
                 entry_index |-> entry_index, entry |-> entry])
append_awakeable_entry(eff, siid, entry_index, entry) ==
    Append(eff, [type |-> "append_awakeable_entry", id |-> siid,
                 entry_index |-> entry_index, entry |-> entry])
store_and_forward_completion(eff, siid, completion) ==
    Append(eff, [type |-> "store_and_forward_completion", id |-> siid,
                 completion |-> completion])
store_completion(eff, siid, completion) ==
    Append(eff, [type |-> "store_completion", id |-> siid,
                 completion |-> completion])
resume_service(eff, siid) ==
    Append(eff, [type |-> "resume_service", id |-> siid])
suspend_service(eff, siid) ==
    Append(eff, [type |-> "suspend_service", id |-> siid])
drop_journal(eff, sid) ==
    Append(eff, [type |-> "drop_journal", service_id |-> sid])
free_service(eff, sid) ==
    Append(eff, [type |-> "free_service", service_id |-> sid])

(* ----------------------------- StateReader ------------------------------ *)
\* A state reader is the storage it reads plus the read that fails, if any:
\* [status, inbox, journal, fail].  Each read returns [ok, val].
ReadOk(v) == [ok |-> TRUE, val |-> v]
ReadErr == [ok |-> FALSE, val |-> "error"]

get_invocation_status(state, sid) ==
    IF state.fail = "get_invocation_status" THEN ReadErr
    ELSE ReadOk(state.status[sid])

get_journal_status(state, sid) ==
    IF state.fail = "get_journal_status" THEN ReadErr
    ELSE ReadOk(state.journal[sid])

\* Option<(u64, ServiceInvocation)>: the inbox entry of the service with the
\* smallest sequence number, or None.
None == [some |-> FALSE]
Some(seq, si) == [some |-> TRUE, seq |-> seq, si |-> si]
peek_inbox(state, sid) ==
    IF state.fail = "peek_inbox" THEN ReadErr
    ELSE IF state.inbox[sid] = {} THEN ReadOk(None)
    ELSE LET front == CHOOSE e \in state.inbox[sid] :
                          \A f \in state.inbox[sid] : e.seq <= f.seq
         IN ReadOk(Some(front.seq, front.si))

(* ----------------------------- StateMachine ----------------------------- *)
\* What a call leaves behind: the machine's counters (self), the buffer, and
\* how the call ended: "Ok", "Err_State", "Err_Codec" or "Panic".
Ret(self, eff, res) == [self |-> self, effects |-> eff, result |-> res]

\* create_service_invocation, create_response_for_awakeable_entry and
\* create_response are unimplemented!(): each call panics.
Unimplemented == [panic |-> TRUE, value |-> "unimplemented"]
create_service_invocation(invoke_request, response_target) == Unimplemented
create_response_for_awakeable_entry(entry) == Unimplemented
create_response(completion_result) == Unimplemented

\* Codec::deserialize followed by enum_inner!: Ok(inner), Err(Codec), or a
\* panic on an entry of another variant.
deserialize(entry) == entry.decode

OutboxInvocation(service_invocation) ==
    [outbox |-> "Invocation", value |-> service_invocation]
OutboxResponse(response) ==
    [outbox |-> "Response", value |-> response]

send_message(self, message, eff) ==
    [self |-> [self EXCEPT !.outbox_seq_number = @ + 1],
     effects |-> enqueue_into_outbox(eff, self.outbox_seq_number, message)]

Completion(entry_index, completion_result) ==
    [entry_index |-> entry_index, result |-> completion_result]

\* Mutant of handle_completion: the InvocationId of the status is not compared.
handle_completion_any_id(siid, completion, state, eff) ==
    LET st == get_invocation_status(state, siid.service_id)
    IN IF ~st.ok THEN [ok |-> FALSE, effects |-> eff]
       ELSE IF st.val.tag = "Invoked"
            THEN [ok |-> TRUE,
                  effects |-> store_and_forward_completion(eff, siid, completion)]
       ELSE IF st.val.tag = "Suspended"
            THEN [ok |-> TRUE,
                  effects |-> store_completion(resume_service(eff, siid),
                                               siid, completion)]
       ELSE [ok |-> TRUE, effects |-> eff]

\* Mutant of handle_completion: the completion is stored before the resume.
handle_completion_store_first(siid, completion, state, eff) ==
    LET st == get_invocation_status(state, siid.service_id)
    IN IF ~st.ok THEN [ok |-> FALSE, effects |-> eff]
       ELSE IF st.val.tag = "Invoked" THEN
            IF st.val.id = siid.invocation_id
            THEN [ok |-> TRUE,
                  effects |-> store_and_forward_completion(eff, siid, completion)]
            ELSE [ok |-> TRUE, effects |-> eff]
       ELSE IF st.val.tag = "Suspended" THEN
            IF st.val.id = siid.invocation_id
            THEN [ok |-> TRUE,
                  effects |-> resume_service(
                                  store_completion(eff, siid, completion), siid)]
            ELSE [ok |-> TRUE, effects |-> eff]
       ELSE [ok |-> TRUE, effects |-> eff]

\* handle_completion: Ok(()) or Err of the state reader; the buffer.
handle_completion(siid, completion, state, eff) ==
    LET st == get_invocation_status(state, siid.service_id)
    IN IF ~st.ok THEN [ok |-> FALSE, effects |-> eff]
       ELSE IF st.val.tag = "Invoked" THEN
            IF st.val.id = siid.invocation_id
            THEN [ok |-> TRUE,
                  effects |-> store_and_forward_completion(eff, siid, completion)]
            ELSE [ok |-> TRUE, effects |-> eff]
       ELSE IF st.val.tag = "Suspended" THEN
            IF st.val.id = siid.invocation_id
            THEN [ok |-> TRUE,
                  effects |-> store_completion(resume_service(eff, siid),
                                               siid, completion)]
            ELSE [ok |-> TRUE, effects |-> eff]
       ELSE [ok |-> TRUE, effects |-> eff]

\* Mutant of complete_invocation: the journal of the ending invocation is not
\* dropped before the next one is started.
complete_invocation_no_drop(self, siid, completion_result, state, eff) ==
    LET peek == peek_inbox(state, siid.service_id)
    IN IF ~peek.ok THEN Ret(self, eff, "Err_State")
       ELSE LET e2 == IF peek.val.some
                      THEN invoke_service(
                               pop_inbox(eff, siid.service_id, peek.val.seq),
                               peek.val.si)
                      ELSE free_service(eff, siid.service_id)
                response == create_response(completion_result)
            IN IF response.panic THEN Ret(self, e2, "Panic")
               ELSE LET sent == send_message(self,
                                    OutboxResponse(response.value), e2)
                    IN Ret(sent.self, sent.effects, "Ok")

\* complete_invocation: the response is built (create_response) after the
\* journal and inbox effects are in the buffer and before send_message.
complete_invocation(self, siid, completion_result, state, eff) ==
    LET e1 == drop_journal(eff, siid.service_id)
        peek == peek_inbox(state, siid.service_id)
    IN IF ~peek.ok THEN Ret(self, e1, "Err_State")
       ELSE LET e2 == IF peek.val.some
                      THEN invoke_service(
                               pop_inbox(e1, siid.service_id, peek.val.seq),
                               peek.val.si)
                      ELSE free_service(e1, siid.service_id)
                response == create_response(completion_result)
            IN IF response.panic THEN Ret(self, e2, "Panic")
               ELSE LET sent == send_message(self,
                                    OutboxResponse(response.value), e2)
                    IN Ret(sent.self, sent.effects, "Ok")

\* The pre-append step of a journal entry that is decoded first: Err(Codec)
\* when deserialize fails, a panic when enum_inner! meets another variant,
\* otherwise the entry type's own effect.
journal_entry_pre_effect(self, siid, entry_index, entry, eff) ==
    IF deserialize(entry) = "err" THEN Ret(self, eff, "Err_Codec")
    ELSE IF deserialize(entry) = "other" THEN Ret(self, eff, "Panic")
    ELSE CASE entry.ty = "Invoke" ->
                LET si == create_service_invocation(
                              "request", Some(siid, entry_index))
                IN IF si.panic THEN Ret(self, eff, "Panic")
                   ELSE LET sent == send_message(self,
                                        OutboxInvocation(si.value), eff)
                        IN Ret(sent.self, sent.effects, "Ok")
           [] entry.ty = "BackgroundInvoke" ->
                LET si == create_service_invocation("request", None)
                IN IF si.panic THEN Ret(self, eff, "Panic")
                   ELSE LET sent == send_message(self,
                                        OutboxInvocation(si.value), eff)
                        IN Ret(sent.self, sent.effects, "Ok")
           [] entry.ty = "CompleteAwakeable" ->
                LET response == create_response_for_awakeable_entry(entry)
                IN IF response.panic THEN Ret(self, eff, "Panic")
                   ELSE LET sent == send_message(self,
                                        OutboxResponse(response.value), eff)
                        IN Ret(sent.self, sent.effects, "Ok")
           [] entry.ty = "SetState" ->
                Ret(self, set_state(eff, siid.service_id), "Ok")
           [] entry.ty = "ClearState" ->
                Ret(self, clear_state(eff, siid.service_id), "Ok")
           [] entry.ty = "Sleep" ->
                Ret(self, register_timer(eff, siid, entry_index), "Ok")

\* Kind::JournalEntry { entry_index, entry }
on_journal_entry(self, siid, entry_index, entry, state, eff) ==
    LET js == get_journal_status(state, siid.service_id)
    IN IF ~js.ok THEN Ret(self, eff, "Err_State")
       ELSE IF debug_assertions /\ entry_index # js.val.length + 1
            THEN Ret(self, eff, "Panic")
       ELSE IF entry.ty = "Awakeable"
            THEN Ret(self, append_awakeable_entry(eff, siid, entry_index, entry),
                     "Ok")
       ELSE LET p == IF entry.ty \in DecodedEntryTypes
                     THEN journal_entry_pre_effect(self, siid, entry_index,
                                                   entry, eff)
                     ELSE Ret(self, eff, "Ok")
            IN IF p.result # "Ok" THEN p
               ELSE Ret(p.self,
                        append_journal_entry(p.effects, siid, entry_index, entry),
                        "Ok")

\* Mutant of on_suspended: the journal revision is not compared.
on_suspended_unconditionally(self, siid, expected_journal_revision, state, eff) ==
    LET js == get_journal_status(state, siid.service_id)
    IN IF ~js.ok THEN Ret(self, eff, "Err_State")
       ELSE Ret(self, suspend_service(eff, siid), "Ok")

\* Mutant of on_suspended: an equal revision counts as a newer one.
on_suspended_ge(self, siid, expected_journal_revision, state, eff) ==
    LET js == get_journal_status(state, siid.service_id)
    IN IF ~js.ok THEN Ret(self, eff, "Err_State")
       ELSE IF js.val.revision >= expected_journal_revision
            THEN Ret(self, resume_service(eff, siid), "Ok")
            ELSE Ret(self, suspend_service(eff, siid), "Ok")

\* Kind::Suspended { journal_revision }
on_suspended(self, siid, expected_journal_revision, state, eff) ==
    LET js == get_journal_status(state, siid.service_id)
    IN IF ~js.ok THEN Ret(self, eff, "Err_State")
       ELSE IF js.val.revision > expected_journal_revision
            THEN Ret(self, resume_service(eff, siid), "Ok")
            ELSE Ret(self, suspend_service(eff, siid), "Ok")

\* Command::Invoker(OutputEffect { service_invocation_id, kind })
on_invoker(self, siid, kind, state, eff) ==
    LET st == get_invocation_status(state, siid.service_id)
    IN IF ~st.ok THEN Ret(self, eff, "Err_State")
       ELSE IF debug_assertions
               /\ ~(st.val.tag = "Invoked" /\ st.val.id = siid.invocation_id)
            THEN Ret(self, eff, "Panic")
       ELSE CASE kind.kind = "JournalEntry" ->
                    on_journal_entry(self, siid, kind.entry_index, kind.entry,
                                     state, eff)
              [] kind.kind = "Suspended" ->
                    on_suspended(self, siid, kind.journal_revision, state, eff)
              [] kind.kind = "End" ->
                    complete_invocation(self, siid, SuccessEmpty, state, eff)
              [] kind.kind = "Failed" ->
                    complete_invocation(self, siid, Failure502, state, eff)

\* Mutant of on_invocation: the counter is not bumped after the enqueue.
on_invocation_no_bump(self, service_invocation, state, eff) ==
    LET st == get_invocation_status(state, service_invocation.id.service_id)
    IN IF ~st.ok THEN Ret(self, eff, "Err_State")
       ELSE IF st.val = Free
            THEN Ret(self, invoke_service(eff, service_invocation), "Ok")
            ELSE Ret(self,
                     enqueue_into_inbox(eff, self.inbox_seq_number,
                                        service_invocation),
                     "Ok")

\* Mutant of on_invocation: only an Invoked service defers the invocation.
on_invocation_unless_invoked(self, service_invocation, state, eff) ==
    LET st == get_invocation_status(state, service_invocation.id.service_id)
    IN IF ~st.ok THEN Ret(self, eff, "Err_State")
       ELSE IF st.val.tag # "Invoked"
            THEN Ret(self, invoke_service(eff, service_invocation), "Ok")
            ELSE Ret([self EXCEPT !.inbox_seq_number = @ + 1],
                     enqueue_into_inbox(eff, self.inbox_seq_number,
                                        service_invocation),
                     "Ok")

\* Command::Invocation(service_invocation)
on_invocation(self, service_invocation, state, eff) ==
    LET st == get_invocation_status(state, service_invocation.id.service_id)
    IN IF ~st.ok THEN Ret(self, eff, "Err_State")
       ELSE IF st.val = Free
            THEN Ret(self, invoke_service(eff, service_invocation), "Ok")
            ELSE Ret([self EXCEPT !.inbox_seq_number = @ + 1],
                     enqueue_into_inbox(eff, self.inbox_seq_number,
                                        service_invocation),
                     "Ok")

\* Mutant of on_response: the completion is built as for a timer, without the
\* response's result.
on_response_empty_result(self, id, entry_index, res, state, eff) ==
    LET h == handle_completion(id, Completion(entry_index, SuccessEmpty),
                               state, eff)
    IN Ret(self, h.effects, IF h.ok THEN "Ok" ELSE "Err_State")

\* Command::Response(Response { id, entry_index, result })
on_response(self, id, entry_index, res, state, eff) ==
    LET h == handle_completion(id, Completion(entry_index, ResultInto(res)),
                               state, eff)
    IN Ret(self, h.effects, IF h.ok THEN "Ok" ELSE "Err_State")

\* Mutant of on_timer: the completion is routed before the timer is deleted.
on_timer_delete_last(self, siid, entry_index, wake_up_time, state, eff) ==
    LET h == handle_completion(siid, Completion(entry_index, SuccessEmpty),
                               state, eff)
    IN Ret(self,
           delete_timer(h.effects, wake_up_time, siid.service_id, entry_index),
           IF h.ok THEN "Ok" ELSE "Err_State")

\* Command::Timer { service_invocation_id, entry_index, timestamp }
on_timer(self, siid, entry_index, wake_up_time, state, eff) ==
    LET e1 == delete_timer(eff, wake_up_time, siid.service_id, entry_index)
        h == handle_completion(siid, Completion(entry_index, SuccessEmpty),
                               state, e1)
    IN Ret(self, h.effects, IF h.ok THEN "Ok" ELSE "Err_State")

\* Command::OutboxTruncation(index)
on_outbox_truncation(self, index, eff) ==
    Ret(self, truncate_outbox(eff, index), "Ok")

on_apply(self, command, eff, state) ==
    CASE command.type = "Invocation" ->
            on_invocation(self, command.si, state, eff)
      [] command.type = "Response" ->
            on_response(self, command.id, command.entry_index, command.result,
                        state, eff)
      [] command.type = "Invoker" ->
            on_invoker(self, command.id, command.kind, state, eff)
      [] command.type = "OutboxTruncation" ->
            on_outbox_truncation(self, command.index, eff)
      [] command.type = "Timer" ->
            on_timer(self, command.id, command.entry_index, command.timestamp,
                     state, eff)

(* ------------------------------- applier -------------------------------- *)
\* The applier persists a batch of effects: store is [status, inbox, journal].
EmptyJournal == [length |-> 0, revision |-> 0]

apply_effect(store, e) ==
    CASE e.type = "invoke_service" ->
            [store EXCEPT
                !.status[e.si.id.service_id] = Invoked(e.si.id.invocation_id),
                !.journal[e.si.id.service_id] = EmptyJournal]
      [] e.type = "enqueue_into_inbox" ->
            [store EXCEPT !.inbox[e.si.id.service_id] =
                              @ \cup {[seq |-> e.seq, si |-> e.si]}]
      [] e.type = "pop_inbox" ->
            [store EXCEPT !.inbox[e.service_id] =
                              {x \in @ : x.seq # e.seq}]
      [] e.type = "suspend_service" ->
            [store EXCEPT !.status[e.id.service_id] =
                              Suspended(e.id.invocation_id)]
      [] e.type = "resume_service" ->
            [store EXCEPT !.status[e.id.service_id] =
                              Invoked(e.id.invocation_id)]
      [] e.type = "free_service" ->
            [store EXCEPT !.status[e.service_id] = Free]
      [] e.type = "drop_journal" ->
            [store EXCEPT !.journal[e.service_id] = EmptyJournal]
      [] e.type \in {"append_journal_entry", "append_awakeable_entry"} ->
            [store EXCEPT !.journal[e.id.service_id] =
                              [length |-> @.length + 1,
                               revision |-> @.revision + 1]]
      [] e.type \in {"store_completion", "store_and_forward_completion"} ->
            [store EXCEPT !.journal[e.id.service_id].revision = @ + 1]
      [] OTHER -> store

RECURSIVE apply_effects(_, _)
apply_effects(store, eff) ==
    IF eff = <<>> THEN store
    ELSE apply_effects(apply_effect(store, Head(eff)), Tail(eff))

Store == [status |-> status, inbox |-> inbox, journal |-> journal]

(* ---------------------------- partition loop ---------------------------- *)
NoCommand == [type |-> "none"]

\* The commands a partition can receive.
InvocationCommands ==
    [type : {"Invocation"}, si : ServiceInvocations]
ResponseCommands ==
    [type : {"Response"}, id : ServiceInvocationIds,
     entry_index : EntryIndices, result : ResponseResults]
TimerCommands ==
    [type : {"Timer"}, id : ServiceInvocationIds,
     entry_index : EntryIndices, timestamp : Timestamps]
OutboxTruncationCommands ==
    [type : {"OutboxTruncation"}, index : OutboxIndices]
JournalEntryKinds ==
    [kind : {"JournalEntry"}, entry_index : EntryIndices, entry : RawEntries]
SuspendedKinds ==
    [kind : {"Suspended"}, journal_revision : JournalRevisions]
EndKinds == {[kind |-> "End"]}
FailedKinds == {[kind |-> "Failed"]}
InvokerCommands(kinds) ==
    [type : {"Invoker"}, id : ServiceInvocationIds, kind : kinds]

Self ==
    [inbox_seq_number |-> inbox_seq_number,
     outbox_seq_number |-> outbox_seq_number]

Reader(fail) ==
    [status |-> status, inbox |-> inbox, journal |-> journal, fail |-> fail]

\* The model's bounds on what a call and the commit after it may leave.
WithinBounds(out) ==
    /\ out.self.inbox_seq_number <= MaxSeq
    /\ out.self.outbox_seq_number <= MaxSeq
    /\ LET after == apply_effects(Store, out.effects)
       IN \A sid \in ServiceIds :
              /\ after.journal[sid].length <= MaxJournalLen
              /\ after.journal[sid].revision <= MaxRevision

\* One iteration of the loop up to the return of on_apply.
Apply(command, fail) ==
    /\ pc = "idle"
    /\ LET out == on_apply(Self, command, effects, Reader(fail))
       IN /\ WithinBounds(out)
          /\ inbox_seq_number' = out.self.inbox_seq_number
          /\ outbox_seq_number' = out.self.outbox_seq_number
          /\ effects' = out.effects
          /\ result' = out.result
          /\ pc' = IF out.result = "Panic" THEN "panicked" ELSE "applied"
    /\ cmd' = command
    /\ pre' = Self
    /\ UNCHANGED <<status, inbox, journal, debug_assertions, dbvars>>

ApplyInvocation ==
    \E c \in InvocationCommands : \E f \in ReadsOf(c) : Apply(c, f)
ApplyResponse ==
    \E c \in ResponseCommands : \E f \in ReadsOf(c) : Apply(c, f)
ApplyTimer ==
    \E c \in TimerCommands : \E f \in ReadsOf(c) : Apply(c, f)
ApplyOutboxTruncation ==
    \E c \in OutboxTruncationCommands : \E f \in ReadsOf(c) : Apply(c, f)
ApplyJournalEntry ==
    \E c \in InvokerCommands(JournalEntryKinds) : \E f \in ReadsOf(c) : Apply(c, f)
ApplySuspended ==
    \E c \in InvokerCommands(SuspendedKinds) : \E f \in ReadsOf(c) : Apply(c, f)
ApplyEnd ==
    \E c \in InvokerCommands(EndKinds) : \E f \in ReadsOf(c) : Apply(c, f)
ApplyFailed ==
    \E c \in InvokerCommands(FailedKinds) : \E f \in ReadsOf(c) : Apply(c, f)

\* on_apply returned Ok: the applier persists the buffer and clears it.
Commit ==
    /\ pc = "applied"
    /\ result = "Ok"
    /\ LET after == apply_effects(Store, effects)
       IN /\ status' = after.status
          /\ inbox' = after.inbox
          /\ journal' = after.journal
    /\ effects' = <<>>
    /\ pc' = "idle"
    /\ cmd' = NoCommand
    /\ result' = "none"
    /\ pre' = Self
    /\ UNCHANGED <<inbox_seq_number, outbox_seq_number, debug_assertions,
                   dbvars>>

\* on_apply returned Err: the caller aborts the command, its effects are not
\* applied, and the loop takes the next command with an empty buffer.
Abort ==
    /\ pc = "applied"
    /\ result \in {"Err_State", "Err_Codec"}
    /\ effects' = <<>>
    /\ pc' = "idle"
    /\ cmd' = NoCommand
    /\ result' = "none"
    /\ pre' = Self
    /\ UNCHANGED <<inbox_seq_number, outbox_seq_number, status, inbox,
                   journal, debug_assertions, dbvars>>


\* The partition before its first command.
PartitionInit ==
    /\ inbox_seq_number = 0
    /\ outbox_seq_number = 0
    /\ effects = <<>>
    /\ result = "none"
    /\ pc = "idle"
    /\ cmd = NoCommand
    /\ pre = [inbox_seq_number |-> 0, outbox_seq_number |-> 0]
    /\ status = [sid \in ServiceIds |-> Free]
    /\ inbox = [sid \in ServiceIds |-> {}]
    /\ journal = [sid \in ServiceIds |-> EmptyJournal]
    /\ debug_assertions \in BOOLEAN

(* ------------------------------- claims --------------------------------- *)
\* on_apply has returned or unwound, and its buffer has not been taken yet.
Called == pc \in {"applied", "panicked"}

CountersUnchanged ==
    /\ inbox_seq_number = pre.inbox_seq_number
    /\ outbox_seq_number = pre.outbox_seq_number

IsInboxEffect(e) == e.type = "enqueue_into_inbox"
IsOutboxEffect(e) == e.type = "enqueue_into_outbox"
IsCompletionEffect(e) ==
    e.type \in {"store_and_forward_completion", "store_completion",
                "resume_service"}

\* The command's invocation is the one the status holds as Invoked.
CmdIsRunning ==
    status[cmd.id.service_id] = [tag |-> "Invoked", id |-> cmd.id.invocation_id]

\* The command's InvocationId is not the one the status holds.
CmdIsStale ==
    status[cmd.id.service_id].id # cmd.id.invocation_id

\* The counters against the effects of the call in the buffer.
C2_Counted ==
    LET ins == SelectSeq(effects, IsInboxEffect)
        outs == SelectSeq(effects, IsOutboxEffect)
    IN /\ inbox_seq_number = pre.inbox_seq_number + Len(ins)
       /\ outbox_seq_number = pre.outbox_seq_number + Len(outs)
       /\ \A k \in 1..Len(ins) : ins[k].seq = pre.inbox_seq_number + k - 1
       /\ \A k \in 1..Len(outs) : outs[k].seq = pre.outbox_seq_number + k - 1
\* One step of either counter.
C2_Step ==
    /\ inbox_seq_number' \in {inbox_seq_number, inbox_seq_number + 1}
    /\ outbox_seq_number' \in {outbox_seq_number, outbox_seq_number + 1}
\* C2: the counters never decrease and move in steps of one; over a call,
\* inbox_seq_number grows by the number of enqueue_into_inbox effects emitted
\* and outbox_seq_number by the number of enqueue_into_outbox effects, and the
\* k-th such effect carries the counter's value before the call plus k - 1.
C2_SequenceCounters == [](C2_Counted) /\ [][C2_Step]_vars
\* A second deferred invocation: enqueue_into_inbox(1, si), counter 1 -> 2.
C2_Witness ==
    /\ Called
    /\ pre.inbox_seq_number = 1
    /\ inbox_seq_number = 2
    /\ Len(effects) = 1
    /\ effects[1].type = "enqueue_into_inbox"
    /\ effects[1].seq = 1

\* C3: Command::Invocation(si) whose status read succeeds emits exactly one
\* effect: invoke_service(si) with both counters unchanged when the status is
\* Free; enqueue_into_inbox(n, si) with n the inbox_seq_number before the
\* call, inbox_seq_number = n + 1 and outbox_seq_number unchanged, when the
\* status is Invoked or Suspended for any InvocationId.
C3_Invocation ==
    (Called /\ cmd.type = "Invocation" /\ result = "Ok") =>
        IF status[cmd.si.id.service_id].tag = "Free"
        THEN /\ effects = <<[type |-> "invoke_service", si |-> cmd.si]>>
             /\ CountersUnchanged
        ELSE /\ effects = <<[type |-> "enqueue_into_inbox",
                             seq |-> pre.inbox_seq_number, si |-> cmd.si]>>
             /\ inbox_seq_number = pre.inbox_seq_number + 1
             /\ outbox_seq_number = pre.outbox_seq_number
\* An invocation arriving at a Suspended service is deferred with sequence 1.
C3_Witness ==
    /\ Called /\ cmd.type = "Invocation" /\ result = "Ok"
    /\ status[cmd.si.id.service_id].tag = "Suspended"
    /\ effects = <<[type |-> "enqueue_into_inbox", seq |-> 1, si |-> cmd.si]>>
    /\ inbox_seq_number = 2

\* C4: a completion addressed to an InvocationId that the status of its
\* ServiceId does not hold (Invoked(other), Suspended(other) or Free) adds no
\* store_and_forward_completion, store_completion or resume_service and
\* changes no counter; a Command::Response for it leaves the buffer empty.
C4_CompletionRouting ==
    (Called /\ cmd.type \in {"Response", "Timer"} /\ CmdIsStale) =>
        /\ \A k \in 1..Len(effects) : ~IsCompletionEffect(effects[k])
        /\ cmd.type = "Response" => effects = <<>>
        /\ CountersUnchanged
\* A Response for I1 arrives while I2 is suspended on the service.
C4_Witness ==
    /\ Called /\ cmd.type = "Response" /\ result = "Ok"
    /\ cmd.id.invocation_id = "I1"
    /\ status[cmd.id.service_id] = [tag |-> "Suspended", id |-> "I2"]
    /\ effects = <<>>

\* The Completion a Response or Timer command is routed as.
C5_Completion ==
    [entry_index |-> cmd.entry_index,
     result |-> IF cmd.type = "Response"
                THEN [completion |-> cmd.result.response]
                ELSE [completion |-> "Success"]]
\* The effects of completion handling: all but a Timer's delete_timer.
C5_Routed ==
    IF cmd.type = "Timer" THEN Tail(effects) ELSE effects
\* C5: a completion routed to a ServiceId whose status is Suspended(id), id
\* the completion's InvocationId, emits exactly resume_service(SI) followed by
\* store_completion(SI, c) (after the delete_timer of a Timer command), and no
\* store_and_forward_completion.
C5_ResumeThenStore ==
    (/\ Called /\ cmd.type \in {"Response", "Timer"} /\ result = "Ok"
     /\ status[cmd.id.service_id] =
            [tag |-> "Suspended", id |-> cmd.id.invocation_id]) =>
        C5_Routed = <<[type |-> "resume_service", id |-> cmd.id],
                      [type |-> "store_completion", id |-> cmd.id,
                       completion |-> C5_Completion]>>
C5_Witness ==
    /\ Called /\ cmd.type = "Response" /\ result = "Ok"
    /\ status[cmd.id.service_id] =
           [tag |-> "Suspended", id |-> cmd.id.invocation_id]
    /\ Len(effects) = 2
    /\ effects[1].type = "resume_service"
    /\ effects[2].type = "store_completion"

\* C6: a Command::Response routed to a ServiceId whose status is Invoked(id),
\* id the response's InvocationId, emits exactly one effect,
\* store_and_forward_completion(SI, Completion{entry_index, result}), no
\* resume_service, and changes neither counter.
C6_StoreAndForward ==
    (Called /\ cmd.type = "Response" /\ result = "Ok" /\ CmdIsRunning) =>
        /\ effects = <<[type |-> "store_and_forward_completion",
                        id |-> cmd.id,
                        completion |->
                            [entry_index |-> cmd.entry_index,
                             result |-> [completion |-> cmd.result.response]]]>>
        /\ CountersUnchanged
C6_Witness ==
    /\ Called /\ cmd.type = "Response" /\ result = "Ok" /\ CmdIsRunning
    /\ cmd.result.response = "Failure"
    /\ cmd.entry_index = 1
    /\ Len(effects) = 1
    /\ effects[1].type = "store_and_forward_completion"

\* An End or Failed command of the running invocation whose reads succeeded.
C7_Completing ==
    /\ Called /\ cmd.type = "Invoker" /\ cmd.kind.kind \in {"End", "Failed"}
    /\ CmdIsRunning
    /\ result # "Err_State"
\* The inbox entry peek_inbox returned to it.
C7_Front ==
    CHOOSE e \in inbox[cmd.id.service_id] :
        \A f \in inbox[cmd.id.service_id] : e.seq <= f.seq
\* C7: an Invoker End or Failed command for the running invocation, when
\* peek_inbox returns (seq, next), emits exactly drop_journal(service_id),
\* pop_inbox(service_id, seq), invoke_service(next), enqueue_into_outbox(n,
\* Response) with n the outbox_seq_number before the call, and leaves
\* outbox_seq_number = n + 1.
C7_InboxDrain ==
    (C7_Completing /\ inbox[cmd.id.service_id] # {}) =>
        /\ Len(effects) = 4
        /\ effects[1] = [type |-> "drop_journal",
                         service_id |-> cmd.id.service_id]
        /\ effects[2] = [type |-> "pop_inbox",
                         service_id |-> cmd.id.service_id,
                         seq |-> C7_Front.seq]
        /\ effects[3] = [type |-> "invoke_service", si |-> C7_Front.si]
        /\ effects[4].type = "enqueue_into_outbox"
        /\ effects[4].seq = pre.outbox_seq_number
        /\ effects[4].message.outbox = "Response"
        /\ outbox_seq_number = pre.outbox_seq_number + 1
\* What the code leaves there: the journal and inbox effects, then the panic
\* of create_response, with no outbox message and no counter change.
C7_Panics ==
    (C7_Completing /\ inbox[cmd.id.service_id] # {}) =>
        /\ result = "Panic"
        /\ effects = <<[type |-> "drop_journal",
                        service_id |-> cmd.id.service_id],
                       [type |-> "pop_inbox",
                        service_id |-> cmd.id.service_id,
                        seq |-> C7_Front.seq],
                       [type |-> "invoke_service", si |-> C7_Front.si]>>
        /\ CountersUnchanged
C7_Witness ==
    /\ C7_Completing
    /\ inbox[cmd.id.service_id] # {}
    /\ cmd.kind.kind = "End"

\* C8: invoke_service for a ServiceId is emitted only when the status of that
\* ServiceId is Free, or after a drop_journal of that ServiceId in the same
\* batch of effects, so that the applier, which sets Invoked(id) on
\* invoke_service, never replaces an invocation that is Invoked or Suspended.
C8_AtMostOneRunning ==
    Called =>
        \A k \in 1..Len(effects) :
            effects[k].type = "invoke_service" =>
                \/ status[effects[k].si.id.service_id].tag = "Free"
                \/ \E j \in 1..(k - 1) :
                       effects[j] = [type |-> "drop_journal",
                                     service_id |->
                                         effects[k].si.id.service_id]
\* The next invocation is started from the inbox behind the drop_journal of
\* the one that ends.
C8_Witness ==
    /\ Called
    /\ Len(effects) = 3
    /\ effects[1].type = "drop_journal"
    /\ effects[3].type = "invoke_service"
    /\ status[effects[3].si.id.service_id].tag = "Invoked"

\* C9: every append_journal_entry emitted by an Invoker JournalEntry command
\* has entry_index equal to the journal length read for that ServiceId plus
\* one; a JournalEntry command with another entry_index emits none.
C9_JournalDensity ==
    (Called /\ cmd.type = "Invoker" /\ cmd.kind.kind = "JournalEntry") =>
        \A k \in 1..Len(effects) :
            effects[k].type = "append_journal_entry" =>
                effects[k].entry_index = journal[cmd.id.service_id].length + 1
\* The same, of builds with debug assertions.
C9_DebugBuild ==
    debug_assertions => C9_JournalDensity
C9_Witness ==
    /\ Called /\ cmd.type = "Invoker" /\ cmd.kind.kind = "JournalEntry"
    /\ debug_assertions
    /\ journal[cmd.id.service_id].length = 1
    /\ Len(effects) = 1
    /\ effects[1].type = "append_journal_entry"
    /\ effects[1].entry_index = 2

\* C10: an Invoker Suspended{expected_revision} command for the running
\* invocation emits exactly one effect: resume_service(SI) when the journal
\* revision read is strictly greater than expected_revision, suspend_service(SI)
\* otherwise; neither counter changes.
C10_Suspended ==
    (/\ Called /\ cmd.type = "Invoker" /\ cmd.kind.kind = "Suspended"
     /\ CmdIsRunning /\ result = "Ok") =>
        /\ effects =
              <<[type |-> IF journal[cmd.id.service_id].revision
                                 > cmd.kind.journal_revision
                          THEN "resume_service" ELSE "suspend_service",
                 id |-> cmd.id]>>
        /\ CountersUnchanged
\* Scenario D at revision 2 against an expected revision of 1.
C10_Witness ==
    /\ Called /\ cmd.type = "Invoker" /\ cmd.kind.kind = "Suspended"
    /\ CmdIsRunning /\ result = "Ok"
    /\ journal[cmd.id.service_id].revision = 2
    /\ cmd.kind.journal_revision = 1
    /\ effects = <<[type |-> "resume_service", id |-> cmd.id]>>

\* A JournalEntry command the state machine accepts: it is of the running
\* invocation, its entry_index is the journal length read plus one, its entry
\* decodes to its header's type and no state read failed.
JournalEntryAccepted ==
    /\ Called /\ cmd.type = "Invoker" /\ cmd.kind.kind = "JournalEntry"
    /\ CmdIsRunning
    /\ cmd.kind.entry_index = journal[cmd.id.service_id].length + 1
    /\ cmd.kind.entry.decode = "ok"
    /\ result # "Err_State"

\* The append_journal_entry of the command in the buffer.
CmdAppend ==
    [type |-> "append_journal_entry", id |-> cmd.id,
     entry_index |-> cmd.kind.entry_index, entry |-> cmd.kind.entry]

\* C11: for an Invoker JournalEntry command, an Awakeable entry emits exactly
\* append_awakeable_entry(SI, entry_index, entry) and no append_journal_entry;
\* an entry of every other type emits append_journal_entry(SI, entry_index,
\* entry) exactly once, as the last effect of the command.
C11_AppendOnce ==
    JournalEntryAccepted =>
        IF cmd.kind.entry.ty = "Awakeable"
        THEN effects = <<[type |-> "append_awakeable_entry", id |-> cmd.id,
                          entry_index |-> cmd.kind.entry_index,
                          entry |-> cmd.kind.entry]>>
        ELSE /\ Len(effects) >= 1
             /\ effects[Len(effects)] = CmdAppend
             /\ \A k \in 1..(Len(effects) - 1) :
                    effects[k].type \notin {"append_journal_entry",
                                            "append_awakeable_entry"}
\* The same, of the entry types whose handling calls none of the
\* unimplemented create_* functions.
C11_ExceptStubs ==
    (cmd.type = "Invoker" /\ cmd.kind.kind = "JournalEntry"
     /\ cmd.kind.entry.ty \in {"Invoke", "BackgroundInvoke", "CompleteAwakeable"})
    \/ C11_AppendOnce
C11_Witness ==
    /\ JournalEntryAccepted
    /\ cmd.kind.entry.ty = "Sleep"
    /\ Len(effects) = 2
    /\ effects[1].type = "register_timer"
    /\ effects[2] = CmdAppend

\* C12: for an Invoker JournalEntry command carrying an Invoke entry, the
\* effects are exactly enqueue_into_outbox(n, Invocation) followed by
\* append_journal_entry(SI, entry_index, entry), n the outbox_seq_number before
\* the call; outbox_seq_number becomes n + 1 and inbox_seq_number is unchanged.
\* BackgroundInvoke does the same and CompleteAwakeable sends one outbox
\* Response instead.
C12_OutboxThenAppend ==
    (JournalEntryAccepted
     /\ cmd.kind.entry.ty \in {"Invoke", "BackgroundInvoke", "CompleteAwakeable"}) =>
        /\ Len(effects) = 2
        /\ effects[1].type = "enqueue_into_outbox"
        /\ effects[1].seq = pre.outbox_seq_number
        /\ effects[1].message.outbox =
               IF cmd.kind.entry.ty = "CompleteAwakeable"
               THEN "Response" ELSE "Invocation"
        /\ effects[2] = CmdAppend
        /\ outbox_seq_number = pre.outbox_seq_number + 1
        /\ inbox_seq_number = pre.inbox_seq_number
\* What the code leaves there: the panic of the create_* call, an empty
\* buffer and unchanged counters.
C12_Panics ==
    (JournalEntryAccepted
     /\ cmd.kind.entry.ty \in {"Invoke", "BackgroundInvoke", "CompleteAwakeable"}) =>
        /\ result = "Panic"
        /\ effects = <<>>
        /\ CountersUnchanged
C12_Witness ==
    /\ JournalEntryAccepted
    /\ cmd.kind.entry.ty = "Invoke"
    /\ cmd.kind.entry_index = 2

\* C13: Command::Timer{SI, entry_index, timestamp} always emits
\* delete_timer(timestamp, SI.service_id, entry_index) as its first effect,
\* whatever the status, followed by exactly the effects of completion handling
\* for Completion{entry_index, Success(empty)}: store_and_forward_completion
\* when Invoked(matching id), resume_service then store_completion when
\* Suspended(matching id), nothing when the invocation is stale or the service
\* Free (or the status read failed).
C13_TimerCompletion ==
    [entry_index |-> cmd.entry_index, result |-> [completion |-> "Success"]]
C13_Timer ==
    (Called /\ cmd.type = "Timer") =>
        /\ Len(effects) >= 1
        /\ effects[1] = [type |-> "delete_timer",
                         wake_up_time |-> cmd.timestamp,
                         service_id |-> cmd.id.service_id,
                         entry_index |-> cmd.entry_index]
        /\ Tail(effects) =
              IF result # "Ok" \/ CmdIsStale THEN <<>>
              ELSE IF status[cmd.id.service_id].tag = "Invoked"
              THEN <<[type |-> "store_and_forward_completion", id |-> cmd.id,
                      completion |-> C13_TimerCompletion]>>
              ELSE <<[type |-> "resume_service", id |-> cmd.id],
                     [type |-> "store_completion", id |-> cmd.id,
                      completion |-> C13_TimerCompletion]>>
        /\ CountersUnchanged
\* A timer fires for the invocation that is suspended.
C13_Witness ==
    /\ Called /\ cmd.type = "Timer" /\ result = "Ok"
    /\ status[cmd.id.service_id] =
           [tag |-> "Suspended", id |-> cmd.id.invocation_id]
    /\ Len(effects) = 3
    /\ effects[1].type = "delete_timer"
    /\ effects[2].type = "resume_service"
    /\ effects[3].type = "store_completion"

\* C14: an Invoker command (JournalEntry, Suspended, End or Failed) whose
\* ServiceInvocationId the status does not hold as Invoked (Free, Suspended, or
\* Invoked for another id) appends no effect and changes no counter.
C14_NotInvokedIsFatal ==
    (Called /\ cmd.type = "Invoker" /\ ~CmdIsRunning) =>
        /\ effects = <<>>
        /\ CountersUnchanged
\* The same, of builds with debug assertions, where it ends in a panic.
C14_DebugBuild ==
    (debug_assertions /\ Called /\ cmd.type = "Invoker" /\ ~CmdIsRunning) =>
        /\ effects = <<>>
        /\ CountersUnchanged
        /\ result \in {"Panic", "Err_State"}
C14_Witness ==
    /\ Called /\ cmd.type = "Invoker" /\ ~CmdIsRunning
    /\ debug_assertions
    /\ status[cmd.id.service_id].tag = "Suspended"
    /\ cmd.kind.kind = "End"
    /\ result = "Panic"

(* ====================== crates/rocksdb/src/db_manager.rs ================ *)
(* RocksDbManager, the process-wide manager of the open databases, its two  *)
(* storage thread pools and its DbWatchdog task.                            *)

(* ------------------------------ bounds --------------------------------- *)
\* How many calls of RocksDbManager::init are made.
MaxInitCallers == 3
\* How many times the configuration is changed.
MaxConfigChanges == 2
\* How many storage tasks are submitted.
MaxTasks == 2
\* How many times open_db is called.
MaxOpens == 2

(* ------------------------------ values --------------------------------- *)
InitCallers == 1..MaxInitCallers
TaskIds == 1..MaxTasks
\* A RocksDb is named by the open_db call that created it.
DbIds == 1..MaxOpens
NoDb == 0
DbNames == {"db1", "db2"}
Priorities == {"High", "Low"}
ByteCounts == {1, 2}
StallThresholds == {1, 2}

\* The fields of CommonOptions the manager and its watchdog read.
CommonOptions ==
    [rocksdb_total_memory_size : ByteCounts,
     rocksdb_total_memtables_size : ByteCounts,
     rocksdb_write_stall_threshold : StallThresholds]

\* The configuration the process starts with.
DefaultOptions ==
    [rocksdb_total_memory_size |-> 1,
     rocksdb_total_memtables_size |-> 1,
     rocksdb_write_stall_threshold |-> 1]

\* OnceLock::new(): nothing stored.
NoManager == [id |-> 0]

\* The RocksDbManager that init builds from the options it loaded; id is the
\* init call that built it and stands for the instance's identity.
Manager(id, opts) ==
    [id |-> id,
     cache |-> opts.rocksdb_total_memory_size,
     write_buffer_manager |-> opts.rocksdb_total_memtables_size,
     stall_detection_millis |-> opts.rocksdb_write_stall_threshold,
     dbs |-> [n \in DbNames |-> NoDb],
     shutting_down |-> FALSE,
     high_pri_pool |-> {},
     low_pri_pool |-> {}]

\* WatchdogCommand
Register(name) == [cmd |-> "Register", name |-> name]
ResetAll == [cmd |-> "ResetAll", name |-> "none"]

NoInit == [pc |-> "idle", opts |-> DefaultOptions, ret |-> 0]
NoWatchdog ==
    [pc |-> "none", current_common_opts |-> DefaultOptions,
     subscriptions |-> <<>>]
NoOpen ==
    [pc |-> "new", name |-> "none", result |-> "none", register |-> "none",
     late |-> FALSE]
NoCall ==
    [pc |-> "new", kind |-> "none", priority |-> "none", saw |-> "none",
     pool |-> "none", during |-> "none", ran |-> FALSE, result |-> "none"]
NoShutdown == [pc |-> "idle", tasks |-> {}, drained |-> {}]
ShutdownOwners == {"caller", "watchdog"}

(* --------------------------- RocksDbManager ----------------------------- *)
\* Mutant of init_existing: init never returns the stored manager early.
init_existing_never(manager) == FALSE

\* init: `if let Some(manager) = DB_MANAGER.get() { return manager; }`
init_existing(manager) == manager # NoManager

\* Mutant of check_shutdown: the flag is not looked at.
check_shutdown_never(shutting_down) == "Ok"

\* The shutting_down check of open_db, async_spawn and spawn.
check_shutdown(shutting_down) ==
    IF shutting_down THEN "Err_Shutdown" ELSE "Ok"

\* Mutant of pool_of: every task goes to the high priority pool.
pool_of_high(priority) == "High"

\* The pool a task of this priority is spawned on.
pool_of(priority) ==
    IF priority = "High" THEN "High" ELSE "Low"

\* pool.spawn(task) on the pool of the task's priority.
pool_spawn(manager, priority, t) ==
    IF pool_of(priority) = "High"
    THEN [manager EXCEPT !.high_pri_pool = @ \cup {t}]
    ELSE [manager EXCEPT !.low_pri_pool = @ \cup {t}]

\* What the closure of task t returns.
ClosureResult(t) == "R" \o ToString(t)

\* get_db(name): the database the map holds under name, NoDb for None.
get_db(manager, name) == manager.dbs[name]

\* self.dbs.write().drain(): the databases taken out of the map.
drain(manager) == {manager.dbs[n] : n \in DbNames} \ {NoDb}
drained_map(manager) == [manager EXCEPT !.dbs = [n \in DbNames |-> NoDb]]

\* Mutant of join_next: a failed task ends the loop.
join_next_stop_on_failure(tasks, d, res) ==
    IF res = "failed" THEN {} ELSE tasks \ {d}

\* tasks.join_next().await returned the outcome of task d: Ok and Err are both
\* logged and the loop goes on with what is left in the JoinSet.
join_next(tasks, d, res) == tasks \ {d}

(* ------------------------------ DbWatchdog ------------------------------ *)
\* tokio::select! { biased; shutdown_watch, watchdog_rx.recv(), changed() }
\* Mutant of select: commands are polled before the shutdown signal.
select_commands_first(shutdown_ready, commands, changed) ==
    IF commands # <<>> THEN "command"
    ELSE IF shutdown_ready THEN "shutdown"
    ELSE IF changed THEN "config"
    ELSE "pending"

select(shutdown_ready, commands, changed) ==
    IF shutdown_ready THEN "shutdown"
    ELSE IF commands # <<>> THEN "command"
    ELSE IF changed THEN "config"
    ELSE "pending"

\* on_config_update: the manager after reconciling the snapshot new against
\* the watchdog's current_common_opts.
on_config_update(manager, current, new) ==
    IF manager.shutting_down THEN manager
    ELSE LET m1 == IF manager.stall_detection_millis
                      # new.rocksdb_write_stall_threshold
                   THEN [manager EXCEPT !.stall_detection_millis =
                                           new.rocksdb_write_stall_threshold]
                   ELSE manager
             m2 == IF new.rocksdb_total_memory_size
                      # current.rocksdb_total_memory_size
                   THEN [m1 EXCEPT
                           !.cache = new.rocksdb_total_memory_size,
                           !.write_buffer_manager =
                               new.rocksdb_total_memtables_size]
                   ELSE m1
         IN IF new.rocksdb_total_memtables_size
               # current.rocksdb_total_memtables_size
            THEN [m2 EXCEPT !.write_buffer_manager =
                                new.rocksdb_total_memtables_size]
            ELSE m2

(* ------------------------------- actions -------------------------------- *)
Initialized == DB_MANAGER # NoManager

\* init, up to the DB_MANAGER.get() check and the load of the options.
InitGet(c) ==
    /\ inits[c].pc = "idle"
    /\ \A o \in InitCallers : o < c => inits[o].pc # "idle"
    /\ concurrent_init' =
           (concurrent_init
            \/ \E o \in InitCallers \ {c} :
                   inits[o].pc \in {"building", "stored"})
    /\ inits' = [inits EXCEPT ![c] =
           IF init_existing(DB_MANAGER)
           THEN [pc |-> "returned", opts |-> @.opts, ret |-> DB_MANAGER.id]
           ELSE [pc |-> "building", opts |-> config, ret |-> 0]]
    /\ UNCHANGED <<DB_MANAGER, watchdog_tasks, config, config_changed,
                   config_changes, cancelled, watchdog_rx, watchdog, opens,
                   calls, shutdowns, resets, db_state, smvars>>

\* init: DB_MANAGER.set(manager).expect("DBManager initialized once").
InitSet(c) ==
    /\ inits[c].pc = "building"
    /\ IF DB_MANAGER = NoManager
       THEN /\ DB_MANAGER' = Manager(c, inits[c].opts)
            /\ inits' = [inits EXCEPT ![c].pc = "stored"]
       ELSE /\ inits' = [inits EXCEPT ![c].pc = "panicked"]
            /\ UNCHANGED DB_MANAGER
    /\ UNCHANGED <<concurrent_init, watchdog_tasks, config, config_changed,
                   config_changes, cancelled, watchdog_rx, watchdog, opens,
                   calls, shutdowns, resets, db_state, smvars>>

\* init: task_center().spawn(.., DbWatchdog::run(..)) and the return.
InitSpawn(c) ==
    /\ inits[c].pc = "stored"
    /\ watchdog_tasks' = watchdog_tasks + 1
    /\ watchdog' = [NoWatchdog EXCEPT !.pc = "spawned"]
    /\ inits' = [inits EXCEPT ![c].pc = "returned", ![c].ret = DB_MANAGER.id]
    /\ UNCHANGED <<DB_MANAGER, concurrent_init, config, config_changed,
                   config_changes, cancelled, watchdog_rx, opens, calls,
                   shutdowns, resets, db_state, smvars>>

\* The configuration is replaced; a watcher that exists is notified.
ConfigChange(new) ==
    /\ config_changes < MaxConfigChanges
    /\ new # config
    /\ config' = new
    /\ config_changes' = config_changes + 1
    /\ config_changed' =
           IF watchdog.pc \in {"select", "resetting"}
           THEN TRUE ELSE config_changed
    /\ UNCHANGED <<DB_MANAGER, inits, concurrent_init, watchdog_tasks,
                   cancelled, watchdog_rx, watchdog, opens, calls, shutdowns,
                   resets, db_state, smvars>>

\* The task center asks its tasks to stop.
Cancel ==
    /\ Initialized
    /\ ~cancelled
    /\ cancelled' = TRUE
    /\ UNCHANGED <<DB_MANAGER, inits, concurrent_init, watchdog_tasks, config,
                   config_changed, config_changes, watchdog_rx, watchdog,
                   opens, calls, shutdowns, resets, db_state, smvars>>

\* DbWatchdog::run up to its loop.
WatchdogStart ==
    /\ watchdog.pc = "spawned"
    /\ watchdog' = [pc |-> "select", current_common_opts |-> config,
                    subscriptions |-> <<>>]
    /\ config_changed' = FALSE
    /\ UNCHANGED <<DB_MANAGER, inits, concurrent_init, watchdog_tasks, config,
                   config_changes, cancelled, watchdog_rx, opens, calls,
                   shutdowns, resets, db_state, smvars>>

\* The branch the loop takes now.
Selected ==
    IF watchdog.pc = "select"
    THEN select(cancelled, watchdog_rx, config_changed)
    ELSE "none"

HoldsResetAll(q) == \E i \in 1..Len(q) : q[i] = ResetAll

\* The shutdown branch: the flag is set and run returns, dropping watchdog_rx
\* and with it every command still queued.
WatchdogShutdown ==
    /\ Selected = "shutdown"
    /\ DB_MANAGER' = [DB_MANAGER EXCEPT !.shutting_down = TRUE]
    /\ watchdog' = [watchdog EXCEPT !.pc = "exited"]
    /\ watchdog_rx' = <<>>
    /\ resets' = IF HoldsResetAll(watchdog_rx) THEN "panicked" ELSE resets
    /\ UNCHANGED <<inits, concurrent_init, watchdog_tasks, config,
                   config_changed, config_changes, cancelled, opens, calls,
                   shutdowns, db_state, smvars>>

\* handle_command(Register(sub))
WatchdogRegister ==
    /\ Selected = "command"
    /\ Head(watchdog_rx).cmd = "Register"
    /\ watchdog' = [watchdog EXCEPT
                      !.subscriptions = Append(@, Head(watchdog_rx).name)]
    /\ watchdog_rx' = Tail(watchdog_rx)
    /\ UNCHANGED <<DB_MANAGER, inits, concurrent_init, watchdog_tasks, config,
                   config_changed, config_changes, cancelled, opens, calls,
                   shutdowns, resets, db_state, smvars>>

\* handle_command(ResetAll(response)) up to the first await inside
\* manager.shutdown(): the flag is set and the map drained into a JoinSet.
WatchdogResetAll ==
    /\ Selected = "command"
    /\ Head(watchdog_rx).cmd = "ResetAll"
    /\ DB_MANAGER' = drained_map([DB_MANAGER EXCEPT !.shutting_down = TRUE])
    /\ shutdowns' = [shutdowns EXCEPT !["watchdog"] =
                        [pc |-> "joining", tasks |-> drain(DB_MANAGER),
                         drained |-> drain(DB_MANAGER)]]
    /\ watchdog' = [watchdog EXCEPT !.pc = "resetting"]
    /\ watchdog_rx' = Tail(watchdog_rx)
    /\ UNCHANGED <<inits, concurrent_init, watchdog_tasks, config,
                   config_changed, config_changes, cancelled, opens, calls,
                   resets, db_state, smvars>>

\* handle_command(ResetAll(response)) after manager.shutdown() returned.
ResetFinish ==
    /\ watchdog.pc = "resetting"
    /\ shutdowns["watchdog"].pc = "done"
    /\ DB_MANAGER' = [drained_map(DB_MANAGER) EXCEPT !.shutting_down = FALSE]
    /\ watchdog' = [watchdog EXCEPT !.pc = "select", !.subscriptions = <<>>]
    /\ shutdowns' = [shutdowns EXCEPT !["watchdog"] = NoShutdown]
    /\ resets' = "returned"
    /\ UNCHANGED <<inits, concurrent_init, watchdog_tasks, config,
                   config_changed, config_changes, cancelled, watchdog_rx,
                   opens, calls, db_state, smvars>>

\* The config branch: on_config_update().
WatchdogConfig ==
    /\ Selected = "config"
    /\ DB_MANAGER' =
           on_config_update(DB_MANAGER, watchdog.current_common_opts, config)
    /\ config_changed' = FALSE
    /\ UNCHANGED <<inits, concurrent_init, watchdog_tasks, config,
                   config_changes, cancelled, watchdog_rx, watchdog, opens,
                   calls, shutdowns, resets, db_state, smvars>>

\* reset(): send ResetAll, then await the response.
ResetSend ==
    /\ Initialized
    /\ resets = "idle"
    /\ IF watchdog.pc = "exited"
       THEN /\ resets' = "Err_Shutdown"
            /\ UNCHANGED watchdog_rx
       ELSE /\ resets' = "awaiting"
            /\ watchdog_rx' = Append(watchdog_rx, ResetAll)
    /\ UNCHANGED <<DB_MANAGER, inits, concurrent_init, watchdog_tasks, config,
                   config_changed, config_changes, cancelled, watchdog, opens,
                   calls, shutdowns, db_state, smvars>>

\* shutdown() up to its first await: the map is drained into a JoinSet with
\* one task per database.
Shutdown ==
    /\ Initialized
    /\ shutdowns["caller"].pc = "idle"
    /\ DB_MANAGER' = drained_map(DB_MANAGER)
    /\ shutdowns' = [shutdowns EXCEPT !["caller"] =
                        [pc |-> "joining", tasks |-> drain(DB_MANAGER),
                         drained |-> drain(DB_MANAGER)]]
    /\ UNCHANGED <<inits, concurrent_init, watchdog_tasks, config,
                   config_changed, config_changes, cancelled, watchdog_rx,
                   watchdog, opens, calls, resets, db_state, smvars>>

\* A task of a JoinSet ends: db.shutdown() returned, or the task panicked.
DbShutdown(d, res) ==
    /\ \E o \in ShutdownOwners : d \in shutdowns[o].tasks
    /\ db_state[d] = "open"
    /\ db_state' = [db_state EXCEPT ![d] = res]
    /\ UNCHANGED <<DB_MANAGER, inits, concurrent_init, watchdog_tasks, config,
                   config_changed, config_changes, cancelled, watchdog_rx,
                   watchdog, opens, calls, shutdowns, resets, smvars>>

\* shutdown(): tasks.join_next().await returns a finished task.
JoinNext(o, d) ==
    /\ shutdowns[o].pc = "joining"
    /\ d \in shutdowns[o].tasks
    /\ db_state[d] # "open"
    /\ shutdowns' = [shutdowns EXCEPT ![o].tasks = join_next(@, d, db_state[d])]
    /\ UNCHANGED <<DB_MANAGER, inits, concurrent_init, watchdog_tasks, config,
                   config_changed, config_changes, cancelled, watchdog_rx,
                   watchdog, opens, calls, resets, db_state, smvars>>

\* shutdown(): join_next() returned None, the function returns.
ShutdownReturn(o) ==
    /\ shutdowns[o].pc = "joining"
    /\ shutdowns[o].tasks = {}
    /\ shutdowns' = [shutdowns EXCEPT ![o].pc = "done"]
    /\ UNCHANGED <<DB_MANAGER, inits, concurrent_init, watchdog_tasks, config,
                   config_changed, config_changes, cancelled, watchdog_rx,
                   watchdog, opens, calls, resets, db_state, smvars>>

\* The next call of open_db: calls are made one after another.
NextOpen(k) ==
    /\ Initialized
    /\ opens[k].pc = "new"
    /\ IF k = 1 THEN TRUE ELSE opens[k - 1].pc = "returned"

\* open_db, up to the shutting_down check.
OpenDbCheck(k, name) ==
    /\ NextOpen(k)
    /\ opens' = [opens EXCEPT ![k] =
           IF check_shutdown(DB_MANAGER.shutting_down) = "Err_Shutdown"
           THEN [NoOpen EXCEPT !.pc = "returned", !.name = name,
                               !.result = "Err_Shutdown",
                               !.late = shutdowns["caller"].pc # "idle"]
           ELSE [NoOpen EXCEPT !.pc = "passed", !.name = name,
                               !.late = shutdowns["caller"].pc # "idle"]]
    /\ UNCHANGED <<DB_MANAGER, inits, concurrent_init, watchdog_tasks, config,
                   config_changed, config_changes, cancelled, watchdog_rx,
                   watchdog, calls, shutdowns, resets, db_state, smvars>>

\* open_db: RocksAccess::open_db succeeded and the wrapper is inserted under
\* its name, replacing what the map held there.
OpenDbInsert(k) ==
    /\ opens[k].pc = "passed"
    /\ db_state' = [db_state EXCEPT ![k] = "open"]
    /\ DB_MANAGER' = [DB_MANAGER EXCEPT !.dbs[opens[k].name] = k]
    /\ opens' = [opens EXCEPT ![k].pc = "inserted"]
    /\ UNCHANGED <<inits, concurrent_init, watchdog_tasks, config,
                   config_changed, config_changes, cancelled, watchdog_rx,
                   watchdog, calls, shutdowns, resets, smvars>>

\* Mutant of OpenDbFail: the database is put in the map before the error is
\* returned.
OpenDbFail_registered(k) ==
    /\ opens[k].pc = "passed"
    /\ DB_MANAGER' = [DB_MANAGER EXCEPT !.dbs[opens[k].name] = k]
    /\ opens' = [opens EXCEPT ![k].pc = "returned", ![k].result = "Err_Open"]
    /\ UNCHANGED <<inits, concurrent_init, watchdog_tasks, config,
                   config_changed, config_changes, cancelled, watchdog_rx,
                   watchdog, calls, shutdowns, resets, db_state, smvars>>

\* open_db: RocksAccess::open_db failed and `?` returns its error.
OpenDbFail(k) ==
    /\ opens[k].pc = "passed"
    /\ opens' = [opens EXCEPT ![k].pc = "returned", ![k].result = "Err_Open"]
    /\ UNCHANGED <<DB_MANAGER, inits, concurrent_init, watchdog_tasks, config,
                   config_changed, config_changes, cancelled, watchdog_rx,
                   watchdog, calls, shutdowns, resets, db_state, smvars>>

\* Mutant of OpenDbRegister: a failed send is returned as an error.
OpenDbRegister_fatal(k) ==
    /\ opens[k].pc = "inserted"
    /\ watchdog_rx' =
           IF watchdog.pc = "exited" THEN watchdog_rx
           ELSE Append(watchdog_rx, Register(opens[k].name))
    /\ opens' = [opens EXCEPT
                    ![k].pc = "returned",
                    ![k].result =
                        IF watchdog.pc = "exited" THEN "Err_Shutdown" ELSE "Ok",
                    ![k].register =
                        IF watchdog.pc = "exited" THEN "failed" ELSE "sent"]
    /\ UNCHANGED <<DB_MANAGER, inits, concurrent_init, watchdog_tasks, config,
                   config_changed, config_changes, cancelled, watchdog, calls,
                   shutdowns, resets, db_state, smvars>>

\* open_db: watchdog_tx.send(Register(..)), which fails (and is only logged)
\* when the watchdog has dropped its receiver; then Ok(db).
OpenDbRegister(k) ==
    /\ opens[k].pc = "inserted"
    /\ watchdog_rx' =
           IF watchdog.pc = "exited" THEN watchdog_rx
           ELSE Append(watchdog_rx, Register(opens[k].name))
    /\ opens' = [opens EXCEPT
                    ![k].pc = "returned",
                    ![k].result = "Ok",
                    ![k].register =
                        IF watchdog.pc = "exited" THEN "failed" ELSE "sent"]
    /\ UNCHANGED <<DB_MANAGER, inits, concurrent_init, watchdog_tasks, config,
                   config_changed, config_changes, cancelled, watchdog, calls,
                   shutdowns, resets, db_state, smvars>>

\* The next storage task: tasks are submitted one after another.
NextCall(t) ==
    /\ Initialized
    /\ calls[t].pc = "new"
    /\ IF t = 1 THEN TRUE ELSE calls[t - 1].pc = "returned"

CallUnchanged ==
    UNCHANGED <<inits, concurrent_init, watchdog_tasks, config, config_changed,
                config_changes, cancelled, watchdog_rx, watchdog, opens,
                shutdowns, resets, db_state, smvars>>

\* What a call found in shutting_down: saw at its check, during at its
\* pool.spawn.
FlagState(flag) == IF flag THEN "set" ELSE "clear"

\* A call of kind with priority whose shutting_down check loaded flag.
Checked(kind, priority, flag) ==
    IF check_shutdown(flag) = "Err_Shutdown"
    THEN [NoCall EXCEPT !.pc = "returned", !.kind = kind,
                        !.priority = priority, !.saw = FlagState(flag),
                        !.result = "Err_Shutdown"]
    ELSE [NoCall EXCEPT !.pc = "passed", !.kind = kind,
                        !.priority = priority, !.saw = FlagState(flag)]

\* async_spawn, up to the shutting_down check.
async_spawn(t, priority) ==
    /\ NextCall(t)
    /\ calls' = [calls EXCEPT ![t] =
                    Checked("async_spawn", priority, DB_MANAGER.shutting_down)]
    /\ UNCHANGED DB_MANAGER
    /\ CallUnchanged

\* async_spawn_unchecked, called directly or by async_spawn, up to rx.await.
async_spawn_unchecked(t, priority) ==
    /\ \/ /\ NextCall(t)
          /\ calls' = [calls EXCEPT ![t] =
                 [NoCall EXCEPT !.pc = "awaiting",
                                !.kind = "async_spawn_unchecked",
                                !.priority = priority,
                                !.pool = pool_of(priority),
                                !.during = FlagState(DB_MANAGER.shutting_down)]]
       \/ /\ calls[t].pc = "passed"
          /\ calls[t].kind = "async_spawn"
          /\ calls[t].priority = priority
          /\ calls' = [calls EXCEPT
                 ![t].pc = "awaiting",
                 ![t].pool = pool_of(priority),
                 ![t].during = FlagState(DB_MANAGER.shutting_down)]
    /\ DB_MANAGER' = pool_spawn(DB_MANAGER, priority, t)
    /\ CallUnchanged

\* spawn, up to the shutting_down check.
spawn(t, priority) ==
    /\ NextCall(t)
    /\ calls' = [calls EXCEPT ![t] =
                    Checked("spawn", priority, DB_MANAGER.shutting_down)]
    /\ UNCHANGED DB_MANAGER
    /\ CallUnchanged

\* spawn_unchecked, called directly or by spawn, which then returns Ok(()).
spawn_unchecked(t, priority) ==
    /\ \/ /\ NextCall(t)
          /\ calls' = [calls EXCEPT ![t] =
                 [NoCall EXCEPT !.pc = "returned",
                                !.kind = "spawn_unchecked",
                                !.priority = priority,
                                !.pool = pool_of(priority),
                                !.during = FlagState(DB_MANAGER.shutting_down),
                                !.result = "Ok"]]
       \/ /\ calls[t].pc = "passed"
          /\ calls[t].kind = "spawn"
          /\ calls[t].priority = priority
          /\ calls' = [calls EXCEPT
                 ![t].pc = "returned",
                 ![t].pool = pool_of(priority),
                 ![t].during = FlagState(DB_MANAGER.shutting_down),
                 ![t].result = "Ok"]
    /\ DB_MANAGER' = pool_spawn(DB_MANAGER, priority, t)
    /\ CallUnchanged

\* A worker of a pool takes task t and runs its closure; the runner of an
\* async task sends the closure's result to the caller awaiting it.
RunTask(t) ==
    /\ Initialized
    /\ t \in DB_MANAGER.high_pri_pool \cup DB_MANAGER.low_pri_pool
    /\ DB_MANAGER' = [DB_MANAGER EXCEPT !.high_pri_pool = @ \ {t},
                                        !.low_pri_pool = @ \ {t}]
    /\ calls' = [calls EXCEPT ![t] =
           IF @.pc = "awaiting"
           THEN [@ EXCEPT !.pc = "returned", !.ran = TRUE,
                          !.result = ClosureResult(t)]
           ELSE [@ EXCEPT !.ran = TRUE]]
    /\ CallUnchanged

(* ---------------------------- specifications ---------------------------- *)
\* The process before RocksDbManager::init is called.
StartupInit ==
    /\ DB_MANAGER = NoManager
    /\ inits = [c \in InitCallers |-> NoInit]
    /\ concurrent_init = FALSE
    /\ watchdog_tasks = 0
    /\ config = DefaultOptions
    /\ config_changed = FALSE
    /\ config_changes = 0
    /\ cancelled = FALSE
    /\ watchdog_rx = <<>>
    /\ watchdog = NoWatchdog
    /\ opens = [k \in DbIds |-> NoOpen]
    /\ calls = [t \in TaskIds |-> NoCall]
    /\ shutdowns = [o \in ShutdownOwners |-> NoShutdown]
    /\ resets = "idle"
    /\ db_state = [d \in DbIds |-> "none"]

\* The process after its one init call at startup has returned: the manager
\* is stored and its watchdog task spawned.
ManagerInit ==
    /\ DB_MANAGER = Manager(1, DefaultOptions)
    /\ inits = [c \in InitCallers |->
                   IF c = 1
                   THEN [pc |-> "returned", opts |-> DefaultOptions, ret |-> 1]
                   ELSE NoInit]
    /\ concurrent_init = FALSE
    /\ watchdog_tasks = 1
    /\ config = DefaultOptions
    /\ config_changed = FALSE
    /\ config_changes = 0
    /\ cancelled = FALSE
    /\ watchdog_rx = <<>>
    /\ watchdog = [NoWatchdog EXCEPT !.pc = "spawned"]
    /\ opens = [k \in DbIds |-> NoOpen]
    /\ calls = [t \in TaskIds |-> NoCall]
    /\ shutdowns = [o \in ShutdownOwners |-> NoShutdown]
    /\ resets = "idle"
    /\ db_state = [d \in DbIds |-> "none"]

\* The partition state machine, the manager left alone.
Init == PartitionInit /\ ManagerInit

\* One iteration of the partition loop.
Next ==
    \/ ApplyInvocation
    \/ ApplyResponse
    \/ ApplyTimer
    \/ ApplyOutboxTruncation
    \/ ApplyJournalEntry
    \/ ApplySuspended
    \/ ApplyEnd
    \/ ApplyFailed
    \/ Commit
    \/ Abort

Spec == Init /\ [][Next]_vars

\* RocksDbManager::init called by several callers while the configuration
\* changes.
InitStartup == PartitionInit /\ debug_assertions /\ StartupInit
InitCalls == \E c \in InitCallers : InitGet(c)
InitStore == \E c \in InitCallers : InitSet(c)
InitWatchdog == \E c \in InitCallers : InitSpawn(c)
ConfigChanges == \E new \in CommonOptions : ConfigChange(new)
NextStartup ==
    \/ InitCalls
    \/ InitStore
    \/ InitWatchdog
    \/ ConfigChanges
    \/ WatchdogStart
SpecStartup == InitStartup /\ [][NextStartup]_vars

\* The storage pools: tasks submitted while the watchdog is told to stop or
\* to reset.
InitManager == PartitionInit /\ debug_assertions /\ ManagerInit
AsyncSpawn == \E t \in TaskIds, p \in Priorities : async_spawn(t, p)
AsyncSpawnUnchecked ==
    \E t \in TaskIds, p \in Priorities : async_spawn_unchecked(t, p)
Spawn == \E t \in TaskIds, p \in Priorities : spawn(t, p)
SpawnUnchecked == \E t \in TaskIds, p \in Priorities : spawn_unchecked(t, p)
RunTasks == \E t \in TaskIds : RunTask(t)
ShutdownReturns == \E o \in ShutdownOwners : ShutdownReturn(o)
NextPool ==
    \/ AsyncSpawn
    \/ AsyncSpawnUnchecked
    \/ Spawn
    \/ SpawnUnchecked
    \/ RunTasks
    \/ Cancel
    \/ WatchdogStart
    \/ WatchdogShutdown
    \/ ResetSend
    \/ WatchdogResetAll
    \/ ShutdownReturns
    \/ ResetFinish
SpecPool == InitManager /\ [][NextPool]_vars

\* The open databases: open_db, shutdown and reset while the watchdog runs.
OpenDbChecks == \E k \in DbIds, n \in DbNames : OpenDbCheck(k, n)
OpenDbInserts == \E k \in DbIds : OpenDbInsert(k)
OpenDbFails == \E k \in DbIds : OpenDbFail(k)
OpenDbRegisters == \E k \in DbIds : OpenDbRegister(k)
DbShutdowns == \E d \in DbIds, res \in {"closed", "failed"} : DbShutdown(d, res)
JoinNexts == \E o \in ShutdownOwners, d \in DbIds : JoinNext(o, d)
NextDb ==
    \/ OpenDbChecks
    \/ OpenDbInserts
    \/ OpenDbFails
    \/ OpenDbRegisters
    \/ Shutdown
    \/ DbShutdowns
    \/ JoinNexts
    \/ ShutdownReturns
    \/ ResetSend
    \/ WatchdogRegister
    \/ WatchdogResetAll
    \/ ResetFinish
    \/ Cancel
    \/ WatchdogStart
    \/ WatchdogShutdown
SpecDb == InitManager /\ [][NextDb]_vars

\* The watchdog reconciling configuration changes.
NextConfig ==
    \/ ConfigChanges
    \/ WatchdogStart
    \/ WatchdogConfig
    \/ Cancel
    \/ WatchdogShutdown
    \/ ResetSend
    \/ WatchdogResetAll
    \/ ShutdownReturns
    \/ ResetFinish
SpecConfig == InitManager /\ [][NextConfig]_vars

(* --------------------------- claims: manager ---------------------------- *)
\* Task t sits in the pool named after its priority, or a worker ran it, and
\* it is in no other pool.
OnMatchingPool(t) ==
    /\ calls[t].pool = calls[t].priority
    /\ t \notin (IF calls[t].priority = "High"
                 THEN DB_MANAGER.low_pri_pool ELSE DB_MANAGER.high_pri_pool)
    /\ \/ calls[t].ran
       \/ t \in (IF calls[t].priority = "High"
                 THEN DB_MANAGER.high_pri_pool ELSE DB_MANAGER.low_pri_pool)

NeverEnqueued(t) ==
    /\ calls[t].pool = "none"
    /\ ~calls[t].ran
    /\ t \notin DB_MANAGER.high_pri_pool \cup DB_MANAGER.low_pri_pool

\* C15: async_spawn and spawn fail with Shutdown, without enqueuing the task
\* on either pool, whenever the call finds shutting_down set; when it finds it
\* clear they enqueue the task on the pool matching its priority (High or
\* Low), spawn returns Ok and async_spawn returns the closure's result.
C15_CheckedSpawn ==
    \A t \in TaskIds :
        calls[t].kind \in {"async_spawn", "spawn"} =>
            /\ calls[t].saw = "set" =>
                   /\ calls[t].pc = "returned"
                   /\ calls[t].result = "Err_Shutdown"
                   /\ NeverEnqueued(t)
            /\ (calls[t].saw = "clear" /\ calls[t].pc = "passed") =>
                   NeverEnqueued(t)
            /\ (calls[t].saw = "clear" /\ calls[t].pc # "passed") =>
                   /\ OnMatchingPool(t)
                   /\ calls[t].result # "Err_Shutdown"
                   /\ (calls[t].kind = "spawn") =>
                          (calls[t].pc = "returned" /\ calls[t].result = "Ok")
                   /\ (calls[t].kind = "async_spawn") =>
                          IF calls[t].ran
                          THEN /\ calls[t].pc = "returned"
                               /\ calls[t].result = ClosureResult(t)
                          ELSE calls[t].pc = "awaiting"
\* A low priority async_spawn got its closure's result, and the spawn after
\* it, made during shutdown, got Shutdown.
C15_Witness ==
    /\ calls[1].kind = "async_spawn" /\ calls[1].priority = "Low"
    /\ calls[1].saw = "clear" /\ calls[1].result = ClosureResult(1)
    /\ calls[2].kind = "spawn" /\ calls[2].saw = "set"
    /\ calls[2].result = "Err_Shutdown"
\* The check and the pool.spawn are two steps: a call that found the flag
\* clear can enqueue its task after the watchdog has set it.
C15_EnqueuedAfterFlagSet ==
    \E t \in TaskIds :
        /\ calls[t].kind \in {"async_spawn", "spawn"}
        /\ calls[t].saw = "clear"
        /\ calls[t].during = "set"

\* C16: async_spawn_unchecked and spawn_unchecked bypass the shutdown check:
\* in every state of shutting_down the task is enqueued on the pool matching
\* its priority and, once a worker runs it, the caller awaiting
\* async_spawn_unchecked holds its result.
C16_UncheckedSpawn ==
    \A t \in TaskIds :
        calls[t].kind \in {"async_spawn_unchecked", "spawn_unchecked"} =>
            /\ OnMatchingPool(t)
            /\ calls[t].during \in {"set", "clear"}
            /\ calls[t].result # "Err_Shutdown"
            /\ (calls[t].kind = "spawn_unchecked") =>
                   (calls[t].pc = "returned" /\ calls[t].result = "Ok")
            /\ (calls[t].kind = "async_spawn_unchecked") =>
                   IF calls[t].ran
                   THEN /\ calls[t].pc = "returned"
                        /\ calls[t].result = ClosureResult(t)
                   ELSE calls[t].pc = "awaiting"
\* A low priority async_spawn_unchecked made while shutting_down was set got
\* its closure's result.
C16_Witness ==
    \E t \in TaskIds :
        /\ calls[t].kind = "async_spawn_unchecked"
        /\ calls[t].priority = "Low"
        /\ calls[t].during = "set"
        /\ calls[t].ran
        /\ calls[t].result = ClosureResult(t)

\* C17: for every sequence of configuration changes processed by the watchdog
\* while not shutting down, after it reconciles a snapshot whose total memory
\* cap is M' the block cache capacity equals M', whatever caps the earlier
\* snapshots carried.
C17_CacheFollowsConfig ==
    [][(WatchdogConfig /\ ~DB_MANAGER.shutting_down) =>
           DB_MANAGER'.cache = config.rocksdb_total_memory_size]_vars
\* What the code does: the cap is set when it differs from the cap of the
\* snapshot the watchdog loaded when it started, and left alone otherwise.
C17_AgainstStartup ==
    [][(WatchdogConfig /\ ~DB_MANAGER.shutting_down) =>
           DB_MANAGER'.cache =
               IF config.rocksdb_total_memory_size
                  # watchdog.current_common_opts.rocksdb_total_memory_size
               THEN config.rocksdb_total_memory_size
               ELSE DB_MANAGER.cache]_vars
\* The watchdog has reconciled every change, is not shutting down, and the
\* cache capacity is not the configured cap.
C17_Witness ==
    /\ watchdog.pc = "select"
    /\ ~DB_MANAGER.shutting_down
    /\ ~config_changed
    /\ config_changes = 2
    /\ config.rocksdb_total_memory_size
           = watchdog.current_common_opts.rocksdb_total_memory_size
    /\ DB_MANAGER.cache # config.rocksdb_total_memory_size

\* C18: shutdown() sets shutting_down before it drains the map: once it has
\* begun, every later open_db (async_spawn, spawn) call fails with Shutdown,
\* and the flag is still set when shutdown() returns.
C18_ShutdownSetsFlag ==
    (shutdowns["caller"].pc # "idle" /\ resets = "idle") =>
        /\ DB_MANAGER.shutting_down
        /\ \A k \in DbIds :
               opens[k].late => opens[k].result = "Err_Shutdown"
\* shutdown() has returned, nothing has set the flag, and an open_db call made
\* after shutdown() began has returned Ok.
C18_Witness ==
    /\ shutdowns["caller"].pc = "done"
    /\ resets = "idle"
    /\ ~DB_MANAGER.shutting_down
    /\ \E k \in DbIds : opens[k].late /\ opens[k].result = "Ok"

\* C19: shutdown() returns only after the shutdown task of every database
\* that was in the map when it was drained has finished, successfully or with
\* a failure: a failed task does not stop the others from being awaited, and
\* the map holds none of the drained databases afterwards.
C19_ShutdownJoined ==
    \A o \in ShutdownOwners :
        shutdowns[o].pc = "done" =>
            /\ shutdowns[o].tasks = {}
            /\ \A d \in shutdowns[o].drained :
                   /\ db_state[d] \in {"closed", "failed"}
                   /\ \A n \in DbNames : DB_MANAGER.dbs[n] # d
\* shutdown() returned after draining two databases, one of which failed.
C19_Witness ==
    /\ shutdowns["caller"].pc = "done"
    /\ shutdowns["caller"].drained = {1, 2}
    /\ db_state[1] = "failed"
    /\ db_state[2] = "closed"

\* C20: init is idempotent: for any number and interleaving of init calls,
\* every caller receives the same first-created manager, exactly one manager
\* is stored and exactly one watchdog task is spawned; no call fails.
C20_InitIdempotent ==
    /\ \A c \in InitCallers : inits[c].pc # "panicked"
    /\ \A c \in InitCallers :
           inits[c].pc = "returned" =>
               (inits[c].ret # 0 /\ inits[c].ret = DB_MANAGER.id)
    /\ watchdog_tasks <= 1
\* C20, amended: the same of init calls that do not run concurrently; of
\* calls that do, every one that returns receives the one stored manager, at
\* most one watchdog task is spawned, and a call fails only then.
C20_SequentialInit ==
    /\ \A c \in InitCallers :
           inits[c].pc = "returned" =>
               (inits[c].ret # 0 /\ inits[c].ret = DB_MANAGER.id)
    /\ watchdog_tasks <= 1
    /\ ~concurrent_init =>
           /\ \A c \in InitCallers : inits[c].pc # "panicked"
           /\ (\E c \in InitCallers : inits[c].pc = "returned") =>
                  watchdog_tasks = 1
\* Every call, made one after another, returned the manager of the first.
C20_Witness ==
    /\ ~concurrent_init
    /\ \A c \in InitCallers : inits[c].pc = "returned" /\ inits[c].ret = 1
    /\ watchdog_tasks = 1

\* An open_db call that returned an error.
OpenFailed(k) == opens[k].result \in {"Err_Shutdown", "Err_Open"}

\* The database of a failed open_db is in no map and no Register was sent
\* for it; the database of an open_db that returned Ok was created.
C21_NotRegistered ==
    \A k \in DbIds :
        /\ OpenFailed(k) =>
               /\ db_state[k] = "none"
               /\ opens[k].register = "none"
               /\ \A n \in DbNames : get_db(DB_MANAGER, n) # k
               /\ \A o \in ShutdownOwners : k \notin shutdowns[o].drained
        /\ opens[k].result = "Ok" => db_state[k] # "none"

\* The step in which an open_db returns an error changes neither the map nor
\* the watchdog's queue; the insert puts the new database under its name; and
\* a database leaves the map only when shutdown() or a reset drains or clears
\* it, or when a later open_db inserts under the same name.
C21_Step ==
    /\ \A k \in DbIds :
           /\ (opens[k].result = "none" /\ opens'[k].result # "none"
               /\ opens'[k].result # "Ok") =>
                  /\ DB_MANAGER'.dbs = DB_MANAGER.dbs
                  /\ watchdog_rx' = watchdog_rx
           /\ (opens[k].pc = "passed" /\ opens'[k].pc = "inserted") =>
                  get_db(DB_MANAGER', opens[k].name) = k
    /\ \A n \in DbNames :
           (get_db(DB_MANAGER, n) # NoDb
            /\ get_db(DB_MANAGER', n) # get_db(DB_MANAGER, n)) =>
               \/ shutdowns["caller"].pc = "idle"
                  /\ shutdowns'["caller"].pc = "joining"
               \/ watchdog.pc = "select" /\ watchdog'.pc = "resetting"
               \/ watchdog.pc = "resetting" /\ watchdog'.pc = "select"
               \/ \E k \in DbIds :
                      /\ opens[k].pc = "passed" /\ opens'[k].pc = "inserted"
                      /\ opens[k].name = n

\* C21 as stated: a database that get_db returns stops being returned only at
\* a shutdown or a reset.  A later open_db under the same name replaces it.
C21_UntilShutdownOrReset ==
    [][\A n \in DbNames :
           (get_db(DB_MANAGER, n) # NoDb
            /\ get_db(DB_MANAGER', n) # get_db(DB_MANAGER, n)) =>
               \/ shutdowns["caller"].pc = "idle"
                  /\ shutdowns'["caller"].pc = "joining"
               \/ watchdog.pc = "select" /\ watchdog'.pc = "resetting"
               \/ watchdog.pc = "resetting" /\ watchdog'.pc = "select"]_vars

\* C21: whenever open_db returns an error (Shutdown because shutting_down was
\* set at the call, or a storage-open failure) the database is not registered:
\* the map is unchanged and no Register command is sent.  Whenever it returns
\* Ok, get_db(name) returns the new database until the next shutdown or reset
\* (or until a later open_db puts another database under that name).
C21_OpenDbErrors == [](C21_NotRegistered) /\ [][C21_Step]_vars
\* One open_db failed in the storage open, the next returned Ok and get_db
\* returns its database.
C21_Witness ==
    /\ opens[1].result = "Err_Open"
    /\ db_state[1] = "none"
    /\ opens[2].result = "Ok"
    /\ get_db(DB_MANAGER, opens[2].name) = 2

\* The step in which handle_command(ResetAll) finishes and reset() returns.
ResetReturns == watchdog.pc = "resetting" /\ watchdog'.pc = "select"

\* C22: when reset() returns every database that was open has completed its
\* shutdown, the map is empty, the subscription list is empty and
\* shutting_down is false, for every interleaving with open_db calls (here
\* with no shutdown() call and no two databases under one name); an open_db
\* whose check runs while the reset is in progress fails with Shutdown.
C22_ResetCleanSlate ==
    [][/\ (ResetReturns /\ shutdowns["caller"].pc = "idle"
           /\ opens[1].name # opens[2].name) =>
              /\ \A n \in DbNames : get_db(DB_MANAGER', n) = NoDb
              /\ watchdog'.subscriptions = <<>>
              /\ ~DB_MANAGER'.shutting_down
              /\ \A k \in DbIds : db_state'[k] # "open"
       /\ \A k \in DbIds :
              (watchdog.pc = "resetting" /\ opens[k].pc = "new"
               /\ opens'[k].pc # "new") =>
                  opens'[k].result = "Err_Shutdown"]_vars
\* reset() returned, the one open_db call made so far returned Ok, and its
\* database is still open although the map no longer holds it and no
\* shutdown() ran.
C22_Witness ==
    /\ resets = "returned"
    /\ shutdowns["caller"].pc = "idle"
    /\ opens[1].result = "Ok"
    /\ opens[2].pc = "new"
    /\ db_state[1] = "open"
    /\ \A n \in DbNames : get_db(DB_MANAGER, n) = NoDb

\* The watchdog loop takes its shutdown, command or config branch.
ShutdownTaken == watchdog.pc = "select" /\ watchdog'.pc = "exited"
CommandTaken ==
    /\ watchdog.pc = "select"
    /\ watchdog'.pc # "exited"
    /\ watchdog_rx # <<>>
    /\ watchdog_rx' = Tail(watchdog_rx)
ConfigTaken == watchdog.pc = "select" /\ config_changed /\ ~config_changed'

C23_Step ==
    /\ (watchdog.pc = "select" /\ cancelled) =>
           ~CommandTaken /\ ~ConfigTaken
    /\ ShutdownTaken => cancelled /\ DB_MANAGER'.shutting_down
    /\ watchdog.pc = "exited" =>
           watchdog' = watchdog /\ DB_MANAGER' = DB_MANAGER
    /\ (watchdog.pc = "select" /\ ~cancelled /\ watchdog_rx # <<>>) =>
           ~ConfigTaken

\* C23: when the shutdown signal is ready the watchdog loop takes the shutdown
\* branch even if commands or a config change are pending; the branch sets
\* shutting_down and exits the loop, nothing further is handled and the flag
\* is never cleared afterwards.  When a command and a config change are both
\* ready and the shutdown signal is not, the command is handled first.
C23_LoopDiscipline ==
    [](watchdog.pc = "exited" => DB_MANAGER.shutting_down) /\ [][C23_Step]_vars
\* The loop exited through the shutdown branch with a ResetAll queued and a
\* config change pending, neither of which it handled.
C23_Witness ==
    /\ watchdog.pc = "exited"
    /\ resets = "panicked"
    /\ config_changed
    /\ config # watchdog.current_common_opts
    /\ DB_MANAGER.cache = watchdog.current_common_opts.rocksdb_total_memory_size
    /\ DB_MANAGER.shutting_down

\* open_db call k makes its Register send and returns.
RegisterSent(k) == opens[k].pc = "inserted" /\ opens'[k].pc = "returned"

\* C24: a Register send that fails because the watchdog is gone is not fatal:
\* open_db still returns Ok, the database stays in the map as it was (get_db
\* returns what it returned before), and no subscription is recorded.
C24_RegisterNonFatal ==
    [](\A k \in DbIds :
           opens[k].register = "failed" =>
               /\ opens[k].result = "Ok"
               /\ db_state[k] # "none"
               /\ watchdog.pc = "exited"
               /\ watchdog_rx = <<>>)
    /\ [][\A k \in DbIds :
              (RegisterSent(k) /\ watchdog.pc = "exited") =>
                  /\ opens'[k].result = "Ok"
                  /\ opens'[k].register = "failed"
                  /\ DB_MANAGER' = DB_MANAGER
                  /\ watchdog' = watchdog
                  /\ watchdog_rx' = watchdog_rx]_vars
\* An open_db passed its check, the watchdog exited, the Register send failed
\* and the call returned Ok with its database in the map.
C24_Witness ==
    /\ opens[1].register = "failed"
    /\ opens[1].result = "Ok"
    /\ get_db(DB_MANAGER, opens[1].name) = 1
    /\ watchdog.subscriptions = <<>>

(* ------------------------- claims: state machine ------------------------ *)
\* A state reader over a store, no read failing.
ReaderOf(store) ==
    [status |-> store.status, inbox |-> store.inbox, journal |-> store.journal,
     fail |-> "none"]

\* The completions (Response or Timer) for an invocation, and its
\* Suspended { journal_revision: r }.
CompletionCommands(siid) ==
    {c \in ResponseCommands \cup TimerCommands : c.id = siid}
SuspendedCommand(siid, r) ==
    [type |-> "Invoker", id |-> siid,
     kind |-> [kind |-> "Suspended", journal_revision |-> r]]

\* The completion is applied and persisted first, then Suspended{r} with r a
\* revision the invoker saw before the completion: the suspension is answered
\* with resume_service alone and the invocation stays Invoked.
C25_CompletionFirst ==
    \A siid \in ServiceInvocationIds :
        status[siid.service_id] = Invoked(siid.invocation_id) =>
            \A c \in CompletionCommands(siid) :
            \A r \in 0..journal[siid.service_id].revision :
                LET o1 == on_apply(Self, c, <<>>, Reader("none"))
                    s1 == apply_effects(Store, o1.effects)
                    o2 == on_apply(o1.self, SuspendedCommand(siid, r), <<>>,
                                   ReaderOf(s1))
                    s2 == apply_effects(s1, o2.effects)
                IN /\ o1.result = "Ok"
                   /\ o2.result = "Ok"
                   /\ o2.effects = resume_service(<<>>, siid)
                   /\ s2.status[siid.service_id] = Invoked(siid.invocation_id)

\* Suspended{r} with r the current revision is applied and persisted first,
\* then the completion: completion handling emits resume_service and the
\* invocation is Invoked again.
C25_SuspendFirst ==
    \A siid \in ServiceInvocationIds :
        status[siid.service_id] = Invoked(siid.invocation_id) =>
            \A c \in CompletionCommands(siid) :
                LET r == journal[siid.service_id].revision
                    o1 == on_apply(Self, SuspendedCommand(siid, r), <<>>,
                                   Reader("none"))
                    s1 == apply_effects(Store, o1.effects)
                    o2 == on_apply(o1.self, c, <<>>, ReaderOf(s1))
                    s2 == apply_effects(s1, o2.effects)
                IN /\ o1.effects = suspend_service(<<>>, siid)
                   /\ s1.status[siid.service_id] =
                          Suspended(siid.invocation_id)
                   /\ o2.result = "Ok"
                   /\ \E i \in 1..Len(o2.effects) :
                          o2.effects[i] = [type |-> "resume_service",
                                           id |-> siid]
                   /\ s2.status[siid.service_id] = Invoked(siid.invocation_id)

\* C25: no lost wake-up in the suspend handshake, the applier bumping the
\* journal revision on every stored completion and setting the status from
\* suspend_service and resume_service.  For both orders of a completion for
\* the running invocation and its Suspended{r}: completion first, the
\* suspension yields resume_service and not suspend_service; completion after
\* the suspension, completion handling yields resume_service.  In the run,
\* Suspended{r} for the running invocation resumes exactly when the stored
\* revision is greater than r.
C25_NoLostWakeup ==
    /\ pc = "idle" => C25_CompletionFirst /\ C25_SuspendFirst
    /\ (/\ Called /\ cmd.type = "Invoker" /\ cmd.kind.kind = "Suspended"
        /\ result = "Ok" /\ CmdIsRunning) =>
           effects =
               IF journal[cmd.id.service_id].revision
                      > cmd.kind.journal_revision
               THEN resume_service(<<>>, cmd.id)
               ELSE suspend_service(<<>>, cmd.id)
\* A completion was stored for the running invocation, and the Suspended{r}
\* that followed with the revision from before it was answered with
\* resume_service.
C25_Witness ==
    /\ Called /\ cmd.type = "Invoker" /\ cmd.kind.kind = "Suspended"
    /\ result = "Ok" /\ CmdIsRunning
    /\ journal[cmd.id.service_id].revision = cmd.kind.journal_revision + 1
    /\ effects = resume_service(<<>>, cmd.id)

\* An invoke_service that complete_invocation emits is for the inbox entry
\* with the smallest sequence number and directly follows its pop_inbox.
C26_FrontOnly ==
    (Called /\ cmd.type = "Invoker") =>
        \A i \in 1..Len(effects) :
            effects[i].type = "invoke_service" =>
                /\ inbox[cmd.id.service_id] # {}
                /\ effects[i].si = C7_Front.si
                /\ i > 1
                /\ effects[i - 1] = [type |-> "pop_inbox",
                                     service_id |-> cmd.id.service_id,
                                     seq |-> C7_Front.seq]
                /\ \A j \in 1..Len(effects) :
                       effects[j].type = "invoke_service" => j = i

\* C26: deferred invocations are started, by the invoke_service that
\* complete_invocation emits, in the order they were applied, each exactly
\* once and none while an earlier one is still queued: when the running
\* invocation ends with invocations queued, the call returns to the applier a
\* batch that starts the earliest of them and no other.
C26_InboxFifo ==
    /\ C26_FrontOnly
    /\ (C7_Completing /\ inbox[cmd.id.service_id] # {}) =>
           /\ pc = "applied"
           /\ \E i \in 1..Len(effects) :
                  effects[i] = [type |-> "invoke_service", si |-> C7_Front.si]
\* Two invocations are queued behind the running one when it ends; the
\* earlier one's invoke_service is in the buffer of a call that never
\* returns.
C26_Witness ==
    /\ C7_Completing
    /\ Cardinality(inbox[cmd.id.service_id]) = 2
    /\ C7_Front.seq = 0
    /\ pc = "panicked"
    /\ effects[3] = [type |-> "invoke_service", si |-> C7_Front.si]

\* free_service is in the buffer exactly when peek_inbox returned nothing, and
\* drop_journal is the first effect.
C27_FreeIffEmpty ==
    C7_Completing =>
        /\ (\E i \in 1..Len(effects) :
                effects[i] = [type |-> "free_service",
                              service_id |-> cmd.id.service_id])
               <=> inbox[cmd.id.service_id] = {}
        /\ effects[1] = [type |-> "drop_journal",
                         service_id |-> cmd.id.service_id]

\* C27: complete_invocation emits free_service iff peek_inbox returns nothing;
\* with an empty inbox the effects of End or Failed are exactly drop_journal,
\* free_service, enqueue_into_outbox(n, Response); drop_journal is the first
\* effect and the outbox Response the last one in both cases.
C27_FreeOrNext ==
    C7_Completing =>
        /\ C27_FreeIffEmpty
        /\ effects[Len(effects)].type = "enqueue_into_outbox"
        /\ effects[Len(effects)].seq = pre.outbox_seq_number
        /\ effects[Len(effects)].message.outbox = "Response"
        /\ inbox[cmd.id.service_id] = {} =>
               /\ Len(effects) = 3
               /\ effects[2] = [type |-> "free_service",
                                service_id |-> cmd.id.service_id]
\* The running invocation ends with an empty inbox: drop_journal and
\* free_service are in the buffer and the call has panicked before the outbox
\* message.
C27_Witness ==
    /\ C7_Completing
    /\ inbox[cmd.id.service_id] = {}
    /\ pc = "panicked"
    /\ effects = <<[type |-> "drop_journal", service_id |-> cmd.id.service_id],
                   [type |-> "free_service", service_id |-> cmd.id.service_id]>>
    /\ CountersUnchanged

\* An effect that appends an entry to the journal.
IsAppendEffect(e) ==
    e.type \in {"append_journal_entry", "append_awakeable_entry"}

\* C28: entry indices are dense and start at 0: the first entry appended to a
\* journal of length 0 has entry_index 0 and each later one the previous index
\* plus one, so that an entry appended to a journal of length n has
\* entry_index n.
C28_DenseFromZero ==
    (Called /\ cmd.type = "Invoker" /\ cmd.kind.kind = "JournalEntry") =>
        \A k \in 1..Len(effects) :
            IsAppendEffect(effects[k]) =>
                effects[k].entry_index = journal[cmd.id.service_id].length
\* What the assertion of a build with debug assertions enforces instead: the
\* index of an appended entry is the journal length plus one.
C28_DebugBuild ==
    (/\ debug_assertions
     /\ Called /\ cmd.type = "Invoker" /\ cmd.kind.kind = "JournalEntry") =>
        \A k \in 1..Len(effects) :
            IsAppendEffect(effects[k]) =>
                effects[k].entry_index = journal[cmd.id.service_id].length + 1
\* With debug assertions, the first entry appended to an empty journal has
\* entry_index 1.
C28_Witness ==
    /\ Called /\ cmd.type = "Invoker" /\ cmd.kind.kind = "JournalEntry"
    /\ debug_assertions
    /\ CmdIsRunning
    /\ result = "Ok"
    /\ journal[cmd.id.service_id].length = 0
    /\ \E k \in 1..Len(effects) :
           IsAppendEffect(effects[k]) /\ effects[k].entry_index = 1

\* on_apply returned Err(State): a read of the StateReader failed.
StateReadFailed == pc = "applied" /\ result = "Err_State"

\* C29: a command aborts cleanly on a state-read error: when on_apply returns
\* Err(State) the buffer holds no effect appended by that command and both
\* counters are unchanged, for every command kind, Timer and Invoker End or
\* Failed included.
C29_CleanAbort ==
    StateReadFailed => effects = <<>> /\ CountersUnchanged
\* What the code leaves in the buffer: nothing, except the delete_timer of a
\* Timer command and the drop_journal of an End or Failed whose peek_inbox
\* failed; the counters are unchanged.
C29_Leftovers ==
    StateReadFailed =>
        /\ CountersUnchanged
        /\ effects # <<>> =>
               \/ /\ cmd.type = "Timer"
                  /\ effects = delete_timer(<<>>, cmd.timestamp,
                                            cmd.id.service_id, cmd.entry_index)
               \/ /\ cmd.type = "Invoker"
                  /\ cmd.kind.kind \in {"End", "Failed"}
                  /\ effects = drop_journal(<<>>, cmd.id.service_id)
\* A Timer command returned Err(State) and its delete_timer is in the buffer.
C29_Witness ==
    /\ StateReadFailed
    /\ cmd.type = "Timer"
    /\ Len(effects) = 1
    /\ effects[1].type = "delete_timer"

\* C30: no database escapes shutdown: for every interleaving of open_db with
\* shutdown(), once shutdown() has returned the map is empty and every
\* database for which open_db returned Ok has had its shutdown run; stated of
\* the open_db calls whose shutting_down check ran before shutdown() was
\* called.
C30_NoEscape ==
    (/\ shutdowns["caller"].pc = "done"
     /\ \A k \in DbIds : ~opens[k].late
     /\ opens[1].name # opens[2].name) =>
        /\ \A n \in DbNames : get_db(DB_MANAGER, n) = NoDb
        /\ \A k \in DbIds :
               opens[k].result = "Ok" => db_state[k] \in {"closed", "failed"}
\* The watchdog has set the flag and shutdown() has returned; the open_db
\* that passed its check before both has returned Ok, and its database is in
\* the map and still open.
C30_Witness ==
    /\ shutdowns["caller"].pc = "done"
    /\ watchdog.pc = "exited"
    /\ DB_MANAGER.shutting_down
    /\ opens[1].result = "Ok"
    /\ ~opens[1].late
    /\ opens[2].pc = "new"
    /\ db_state[1] = "open"
    /\ get_db(DB_MANAGER, opens[1].name) = 1

(* ----------------------- claims: memtable ceiling ----------------------- *)
\* C31: after the watchdog reconciles a snapshot while not shutting down, the
\* write-buffer manager's ceiling equals the total memtable cap of that
\* snapshot, whether or not the total memory cap changed with it; the
\* block-cache capacity is left unchanged by a snapshot whose memory cap is
\* the one already applied.
C31_MemtableCap ==
    [][(WatchdogConfig /\ ~DB_MANAGER.shutting_down) =>
           /\ DB_MANAGER'.write_buffer_manager =
                  config.rocksdb_total_memtables_size
           /\ config.rocksdb_total_memory_size = DB_MANAGER.cache =>
                  DB_MANAGER'.cache = DB_MANAGER.cache]_vars
\* What the code does: the ceiling is set when the memory cap or the memtable
\* cap differs from that of the snapshot the watchdog loaded when it started,
\* and left alone otherwise; the cache is untouched by a snapshot whose
\* memory cap is the one already applied.
C31_AgainstStartup ==
    [][(WatchdogConfig /\ ~DB_MANAGER.shutting_down) =>
           /\ DB_MANAGER'.write_buffer_manager =
                  IF config.rocksdb_total_memory_size
                         # watchdog.current_common_opts.rocksdb_total_memory_size
                     \/ config.rocksdb_total_memtables_size
                         # watchdog.current_common_opts.rocksdb_total_memtables_size
                  THEN config.rocksdb_total_memtables_size
                  ELSE DB_MANAGER.write_buffer_manager
           /\ config.rocksdb_total_memory_size = DB_MANAGER.cache =>
                  DB_MANAGER'.cache = DB_MANAGER.cache]_vars
\* The watchdog has reconciled two changes, the second of which put the
\* memtable cap back to its startup value with the memory cap untouched, and
\* the ceiling is still that of the first change.
C31_Witness ==
    /\ watchdog.pc = "select"
    /\ ~DB_MANAGER.shutting_down
    /\ ~config_changed
    /\ config_changes = 2
    /\ watchdog.current_common_opts = DefaultOptions
    /\ config = DefaultOptions
    /\ DB_MANAGER.cache = config.rocksdb_total_memory_size
    /\ DB_MANAGER.write_buffer_manager # config.rocksdb_total_memtables_size

====
